---- MODULE Spec2Model ----
(***************************************************************************)
(* Pockestrator: the service orchestrator of pkg/orchestrator.go with the  *)
(* managers it drives (service, systemd, caddy, validation, database).     *)
(*                                                                         *)
(* Every handler is split at its accesses to shared state (repository      *)
(* rows, service directories, unit files, supervisor, Caddyfile): one      *)
(* action per access, so that the interleavings of concurrent requests and *)
(* of the detached deployment goroutines are the ones the Go runtime can   *)
(* produce.  The code takes no lock anywhere.                              *)
(***************************************************************************)
EXTENDS Integers, Sequences, FiniteSets, TLC

\* ------------------------------------------------------------------ bounds

\* injected failures of shell-outs and file operations per behaviour
MaxFaults == 1
\* Delete / Control requests issued per behaviour
MaxOps == 1
MaxRetries == 2
MaxRows == 4
MaxJournal == 3
MaxCalls == 3
MaxSweeps == 2
MaxAdds == 3
GwSubs == { <<"a">>, <<"b", "a">> }
GwPorts == { 8091, 8092 }
ScmNames == { <<"a">>, <<"b", "a">> }
ScmPorts == { 8091, 8092 }
ScmStatuses == { "running", "stopped" }
ScmHeld == { 8092 }
PortPool == { 8000, 8091, 8092, 8093, 8094, 9999 }
HeldPool == { 8091, 8093, 8095 }

\* --------------------------------------------------------- program constants

BasePort == 8091
MinPort == 1024
MaxPort == 65535
MaxNameLen == 50
HooksMinPort == 8000
HooksMaxPort == 9999
ProbeLimit == 10000

\* ------------------------------------------------------------------ inputs

\* project names are sequences of characters, so that case folding and the
\* substring tests of the Caddyfile code are computed, not assumed
Names == { <<"a">>, <<"A">>, <<"b", "a">> }
\* 0 is "no port given" (ServiceRequest.Port omitted)
ReqPorts == { 0, 8091, 80 }
\* concurrent Create requests; the repository id of a row is the request's id
Reqs == { 1, 2 }
Actions == { "start", "stop", "restart" }
\* names are told apart only by how they relate to one another, so the first
\* request to arrive brings the first name and later ones any name
NamesOf(r) == IF r = 1 THEN { <<"a">> } ELSE Names

\* the requests of the specification that states fairness
LiveReqs == { 1 }

NoRow == [name |-> <<>>, port |-> 0, status |-> "none", hashed |-> FALSE]
NoUnit == 0

\* ------------------------------------------------------ validation.Validator

LowerChar(c) == IF c = "A" THEN "a" ELSE IF c = "B" THEN "b" ELSE c
ToLower(s) == [i \in DOMAIN s |-> LowerChar(s[i])]
EqualFold(s, t) == ToLower(s) = ToLower(t)

\* the alphabet of the names used here; "api" stands for the reserved names
Letters == { "a", "b", "A", "B", "p", "i" }
NameChars == Letters \cup { "1", "_", "-" }
ReservedNames == { <<"a", "p", "i">> }

ValidateProjectName(name) ==
    IF name = <<>> THEN { "EMPTY_NAME" }
    ELSE (IF Len(name) > MaxNameLen THEN { "NAME_TOO_LONG" } ELSE {})
         \cup (IF \E i \in DOMAIN name : name[i] \notin NameChars
               THEN { "INVALID_CHARACTERS" } ELSE {})
         \cup (IF name[1] \notin Letters THEN { "INVALID_START" } ELSE {})
         \cup (IF \E r \in ReservedNames : EqualFold(name, r)
               THEN { "RESERVED_NAME" } ELSE {})

ValidatePort(port, available) ==
    IF port < MinPort \/ port > MaxPort THEN { "INVALID_PORT_RANGE" }
    ELSE IF ~available THEN { "PORT_IN_USE" } ELSE {}

ValidateServiceUniqueness(projectName, existingServices) ==
    IF \E e \in existingServices : EqualFold(projectName, e)
    THEN { "DUPLICATE_SERVICE" } ELSE {}

\* the validator without its test of the port against the stored ports
ValidatePortUniquenessOff(port, existingPorts) == {}

ValidatePortUniqueness(port, existingPorts) ==
    IF port \in existingPorts THEN { "DUPLICATE_PORT" } ELSE {}

\* version and domain are always the defaults here (GetLatestVersion returns
\* "0.28.4", Config.DefaultDomain), which pass ValidateVersion/ValidateDomain
ValidateServiceConfiguration(projectName, port, available, existingServices, existingPorts) ==
    ValidateProjectName(projectName)
    \cup ValidatePort(port, available)
    \cup ValidateServiceUniqueness(projectName, existingServices)
    \cup ValidatePortUniqueness(port, existingPorts)

\* ------------------------------------------------------------ service.Manager

RECURSIVE NextFrom(_, _)
NextFrom(port, used) ==
    IF port > MaxPort THEN BasePort
    ELSE IF port \notin used THEN port
    ELSE NextFrom(port + 1, used)

GetNextPort(usedPorts) == NextFrom(BasePort, usedPorts)

\* ---------------------------------------------------------------- Caddyfile

\* The file is a sequence of tokens.  k: "hdr" (the text <sub>.<domain> that
\* opens a site block), "txt" (what is left of a header cut in the middle),
\* "open" / "close" (braces) and "dir" (directive text without braces).
\* s: the subdomain text of a header, or the directive;  p: the proxied port;
\* o: the subdomain of the block the token was written for.
Tok(k, s, p, o) == [k |-> k, s |-> s, p |-> p, o |-> o]

ConfigTemplate(sub, port) ==
    << Tok("hdr", sub, 0, sub), Tok("open", <<>>, 0, sub),
       Tok("dir", <<"request_body">>, 0, sub), Tok("open", <<>>, 0, sub),
       Tok("dir", <<"max_size">>, 0, sub), Tok("close", <<>>, 0, sub),
       Tok("dir", <<"reverse_proxy">>, port, sub), Tok("open", <<>>, 0, sub),
       Tok("dir", <<"transport">>, 0, sub), Tok("open", <<>>, 0, sub),
       Tok("dir", <<"read_timeout">>, 0, sub), Tok("close", <<>>, 0, sub),
       Tok("dir", <<"header_up">>, 0, sub), Tok("open", <<>>, 0, sub),
       Tok("dir", <<"remote_host">>, 0, sub), Tok("close", <<>>, 0, sub),
       Tok("dir", <<"header_up">>, 0, sub), Tok("open", <<>>, 0, sub),
       Tok("dir", <<"remote_host">>, 0, sub), Tok("close", <<>>, 0, sub),
       Tok("close", <<>>, 0, sub),
       Tok("close", <<>>, 0, sub) >>

IsSuffix(sub, s) ==
    /\ Len(sub) <= Len(s)
    /\ SubSeq(s, Len(s) - Len(sub) + 1, Len(s)) = sub

\* strings.Contains(line, "<sub>.<domain>") over the lines of the file: only a
\* header line holds the domain, and it holds "<sub>.<domain>" exactly when
\* its subdomain ends with sub
configExists(content, sub) ==
    \E i \in DOMAIN content : content[i].k = "hdr" /\ IsSuffix(sub, content[i].s)

\* index of the first "}" at or after position i, 0 when there is none
RECURSIVE FirstClose(_, _)
FirstClose(content, i) ==
    IF i > Len(content) THEN 0
    ELSE IF content[i].k = "close" THEN i
    ELSE FirstClose(content, i + 1)

\* regexp `<sub>\.<domain>\s*\{[^}]*\}` replaced by "" everywhere, scanning
\* from position i: a match starts inside a header whose subdomain ends with
\* sub, needs the "{" that follows, and ends at the first "}" after it
RECURSIVE RemoveFrom(_, _, _)
RemoveFrom(content, sub, i) ==
    IF i > Len(content) THEN <<>>
    ELSE LET t == content[i]
             j == FirstClose(content, i + 2)
             hit == /\ t.k = "hdr"
                    /\ IsSuffix(sub, t.s)
                    /\ i + 1 <= Len(content)
                    /\ content[i + 1].k = "open"
                    /\ j # 0
             rest == SubSeq(t.s, 1, Len(t.s) - Len(sub))
         IN IF hit
            THEN (IF rest = <<>> THEN <<>> ELSE << Tok("txt", rest, 0, t.o) >>)
                 \o RemoveFrom(content, sub, j + 1)
            ELSE << t >> \o RemoveFrom(content, sub, i + 1)

RemoveBlock(content, sub) == RemoveFrom(content, sub, 1)

\* caddy validate: the parser rejects a file whose braces do not pair up, a
\* "}" without its "{" or text that is no site address before a block; what
\* else it may reject is left to the environment
RECURSIVE Depth(_, _, _)
Depth(content, i, d) ==
    IF i > Len(content) THEN d
    ELSE IF content[i].k = "open" THEN Depth(content, i + 1, d + 1)
    ELSE IF content[i].k = "close"
         THEN (IF d = 0 THEN -1 ELSE Depth(content, i + 1, d - 1))
    ELSE IF d = 0 /\ content[i].k # "hdr" THEN -1
    ELSE Depth(content, i + 1, d)

ValidateConfig(content) == Depth(content, 1, 0) = 0

\* ------------------------------------------------------------------- state

VARIABLES
    rows,       \* repository: row id -> record, NoRow when absent
    dirs,       \* names whose service directory exists
    bins,       \* name -> "none" | "file" | "exec": <dir>/pocketbase
    units,      \* name -> port written in the unit file, NoUnit when absent
    enabled,    \* names the supervisor has enabled
    running,    \* [name, port] of the units the supervisor reports active
    caddyfile,  \* the shared gateway config, a token sequence
    cpc,        \* CreateService handler of request r: its position
    creq,       \* request r: [name, port]; auto records that no port was given
    cnames,     \* request r: existingServices as read
    cports,     \* request r: usedPorts as read
    resp,       \* request r: the ServiceResponse returned
    dpc,        \* deployment goroutine of request r: its position
    op,         \* the Delete / Control request in progress
    opsLeft,
    faults,
    used,       \* ports of the rows the allocator reads
    held,       \* ports some other process listens on
    assigned,   \* the allocator called last, and what it returned
    journal,    \* RollbackManager.operations
    rb,         \* the Rollback call in progress, and what it has done
    scm,        \* the ServiceCreationManager call in progress
    rec,        \* the services record the hooks run for, NoSvc when absent
    mon,        \* the health-check goroutine: its position and its snapshot
    down,       \* whether the shutdown of the process has begun
    hs,         \* what the last GetServiceStatus call returned
    gw          \* the calls that added a site block, and the last of them

vars == << rows, dirs, bins, units, enabled, running, caddyfile,
           cpc, creq, cnames, cports, resp, dpc, op, opsLeft, faults,
           used, held, assigned, journal, rb, scm, rec, mon, down, hs, gw >>

sysVars == << dirs, bins, units, enabled, running, caddyfile >>
createVars == << cpc, creq, cnames, cports, resp >>
opVars == << op, opsLeft >>
monVars == << mon, down, hs, gw >>
pkgVars == << rows, sysVars, createVars, dpc, opVars, faults, monVars >>
portVars == << used, held, assigned >>
rollbackVars == << journal, rb >>
scmVars == << scm, rec >>
hookVars == << portVars, rollbackVars, scmVars, monVars >>
procVars == << rows, createVars, dpc, opVars, faults, monVars >>

NoPort == [by |-> "none", port |-> 0, err |-> FALSE]

\* i is the loop counter of Rollback, n the length it read, lastErr the entry
\* whose error it holds (0: none); ran and failed list what was executed and
\* what returned an error; carried is the set of entries whose error the
\* returned error wraps
NoRb == [pc |-> "idle", i |-> 0, n |-> 0, lastErr |-> 0, ran |-> <<>>,
         failed |-> {}, carried |-> {}]

NoSvc == [name |-> <<>>, sub |-> <<>>, port |-> 0, status |-> "none"]

\* what the unit file, the supervisor and the Caddyfile held for the service
\* when UpdateService was called
NoPre == [unit |-> NoUnit, run |-> {}, file |-> <<>>]

\* n counts the calls made so far; port is what SyncSystemToService returned;
\* label is the text the returned error starts with; admin tells how the
\* superuser step of CreateService went; pre is set by an update only
IdleScm == [kind |-> "none", pc |-> "idle", svc |-> NoSvc, old |-> NoSvc,
            res |-> "none", port |-> 0, n |-> 0, label |-> "", admin |-> "none",
            pre |-> NoPre]

\* err: the call returned an error and no HealthStatus
NoHealth == [called |-> FALSE, id |-> 0, err |-> FALSE, IsRunning |-> FALSE,
             SystemdStatus |-> "", ErrorMessage |-> FALSE]

\* todo is what is left of the list the sweep reads; last is the service it
\* checked last: the status the list had and what GetServiceStatus returned
NoCheck == [id |-> 0, stored |-> "none", err |-> FALSE, IsRunning |-> FALSE]
IdleMon == [pc |-> "off", todo |-> {}, sweeps |-> 0, last |-> NoCheck]

\* by: the manager the calls go to; act, sub, port and err: the last call and
\* whether it returned an error; had: whether the file held a block of that
\* subdomain before it; added: the subdomains added without error; n: calls
\* signalled: the last Reload call ran systemctl reload caddy
NoGw == [by |-> "none", act |-> "none", sub |-> <<>>, port |-> 0, err |-> FALSE,
         had |-> FALSE, added |-> {}, n |-> 0, signalled |-> FALSE]

\* the health-check goroutine not started, no Status request made, no site
\* block added
MonIdle ==
    /\ mon = IdleMon
    /\ down = FALSE
    /\ hs = NoHealth
    /\ gw = NoGw

\* the hooks-side components before any call
HookIdle ==
    /\ MonIdle
    /\ used = {}
    /\ held = {}
    /\ assigned = NoPort
    /\ journal = <<>>
    /\ rb = NoRb
    /\ scm = IdleScm
    /\ rec = NoSvc

NoResp == [status |-> "none", errors |-> {}]
NoReq == [name |-> <<>>, port |-> 0, auto |-> FALSE]
\* gone and busy record what held when the request arrived: the artifacts of
\* the service that were already missing, and whether its deployment was
\* still in flight
IdleOp == [kind |-> "none", pc |-> "idle", id |-> 0, name |-> <<>>,
           act |-> "none", content |-> <<>>, res |-> "none",
           gone |-> {}, busy |-> FALSE]

Init ==
    /\ rows = [r \in Reqs |-> NoRow]
    /\ dirs = {}
    /\ bins = [n \in Names |-> "none"]
    /\ units = [n \in Names |-> NoUnit]
    /\ enabled = {}
    /\ running = {}
    /\ caddyfile = <<>>
    /\ cpc = [r \in Reqs |-> "idle"]
    /\ creq = [r \in Reqs |-> NoReq]
    /\ cnames = [r \in Reqs |-> {}]
    /\ cports = [r \in Reqs |-> {}]
    /\ resp = [r \in Reqs |-> NoResp]
    /\ dpc = [r \in Reqs |-> "idle"]
    /\ op = IdleOp
    /\ opsLeft = MaxOps
    /\ faults = 0
    /\ HookIdle

\* ------------------------------------------------------- database.Manager

Present == { r \in Reqs : rows[r] # NoRow }
GetExistingServices == { rows[r].name : r \in Present }
GetUsedPorts == { rows[r].port : r \in Present }

\* a status update that never reaches the row
UpdateServiceStatusLost(rs, id, status) == rs

UpdateServiceStatus(rs, id, status) ==
    IF rs[id] = NoRow THEN rs ELSE [rs EXCEPT ![id].status = status]

\* validation.IsPortAvailable: net.Listen fails on a port a started unit holds
IsPortAvailable(port) == ~ \E x \in running : x.port = port

\* the supervisor: systemctl start / restart / stop / disable of a unit
IsRunning(n) == \E x \in running : x.name = n
Stopped(run, n) == { x \in run : x.name # n }
Started(run, n, port) ==
    IF \E x \in run : x.name = n THEN run ELSE run \cup { [name |-> n, port |-> port] }

CanFail == faults < MaxFaults
Fault == faults' = faults + 1
NoFault == faults' = faults

\* ------------------------------------------ Orchestrator.CreateService

\* the handler is entered and reads the existing names (lines 82-100)
CreateBegin(r) ==
    /\ cpc[r] = "idle"
    /\ \A q \in Reqs : q < r => cpc[q] # "idle"     \* ids in order of arrival
    /\ \E n \in NamesOf(r), p \in ReqPorts :
          creq' = [creq EXCEPT ![r] = [name |-> n, port |-> p, auto |-> p = 0]]
    /\ cnames' = [cnames EXCEPT ![r] = GetExistingServices]
    /\ cpc' = [cpc EXCEPT ![r] = "ports"]
    /\ UNCHANGED << rows, sysVars, cports, resp, dpc, opVars, faults >>
    /\ UNCHANGED hookVars

\* reads the used ports and resolves a missing port (lines 102-110)
CreatePorts(r) ==
    /\ cpc[r] = "ports"
    /\ cports' = [cports EXCEPT ![r] = GetUsedPorts]
    /\ creq' = [creq EXCEPT ![r].port =
                   IF @ = 0 THEN GetNextPort(GetUsedPorts) ELSE @]
    /\ cpc' = [cpc EXCEPT ![r] = "validate"]
    /\ UNCHANGED << rows, sysVars, cnames, resp, dpc, opVars, faults >>
    /\ UNCHANGED hookVars

ValidationErrors(r) ==
    ValidateServiceConfiguration(creq[r].name, creq[r].port,
                                 IsPortAvailable(creq[r].port),
                                 cnames[r], cports[r])

\* validates against what was read; on failure returns (lines 112-128)
CreateValidate(r) ==
    /\ cpc[r] = "validate"
    /\ IF ValidationErrors(r) # {}
       THEN /\ resp' = [resp EXCEPT ![r] =
                          [status |-> "error", errors |-> ValidationErrors(r)]]
            /\ cpc' = [cpc EXCEPT ![r] = "done"]
       ELSE /\ cpc' = [cpc EXCEPT ![r] = "persist"]
            /\ UNCHANGED resp
    /\ cnames' = [cnames EXCEPT ![r] = {}]          \* the locals are dead
    /\ cports' = [cports EXCEPT ![r] = {}]
    /\ UNCHANGED << rows, sysVars, creq, dpc, opVars, faults >>
    /\ UNCHANGED hookVars

\* inserts the row, spawns the deployment and returns (lines 130-158)
CreatePersist(r) ==
    /\ cpc[r] = "persist"
    /\ rows' = [rows EXCEPT ![r] = [name |-> creq[r].name, port |-> creq[r].port,
                                    status |-> "deploying", hashed |-> FALSE]]
    /\ dpc' = [dpc EXCEPT ![r] = "deploy"]
    /\ resp' = [resp EXCEPT ![r] = [status |-> "deploying", errors |-> {}]]
    /\ cpc' = [cpc EXCEPT ![r] = "done"]
    /\ UNCHANGED << sysVars, creq, cnames, cports, opVars, faults >>
    /\ UNCHANGED hookVars

\* ------------------------------------ Orchestrator.deployServiceAsync

\* the goroutine works on the record CreateService built, not on the row
DName(r) == creq[r].name
DPort(r) == creq[r].port

DeployGoto(r, pc) == dpc' = [dpc EXCEPT ![r] = pc]

\* service.Manager.Deploy: MkdirAll, download and extract, Chmod 0755
DeployFiles(r) ==
    /\ dpc[r] = "deploy"
    /\ \/ /\ CanFail /\ Fault                       \* MkdirAll fails
          /\ DeployGoto(r, "fail")
          /\ UNCHANGED << dirs, bins >>
       \/ /\ CanFail /\ Fault                       \* download or extraction fails
          /\ dirs' = dirs \cup { DName(r) }
          /\ DeployGoto(r, "fail")
          /\ UNCHANGED bins
       \/ /\ CanFail /\ Fault                       \* Chmod fails
          /\ dirs' = dirs \cup { DName(r) }
          /\ bins' = [bins EXCEPT ![DName(r)] = "file"]
          /\ DeployGoto(r, "fail")
       \/ /\ NoFault
          /\ dirs' = dirs \cup { DName(r) }
          /\ bins' = [bins EXCEPT ![DName(r)] = "exec"]
          /\ DeployGoto(r, "unit")
    /\ UNCHANGED << rows, units, enabled, running, caddyfile, createVars, opVars >>
    /\ UNCHANGED hookVars

\* systemd.Manager.CreateService writes the unit file; EnableService then
\* invokes daemon-reload, which runs while the goroutine is at "dreload"
DeployUnit(r) ==
    /\ dpc[r] = "unit"
    /\ \/ /\ CanFail /\ Fault
          /\ DeployGoto(r, "fail")
          /\ UNCHANGED units
       \/ /\ NoFault
          /\ units' = [units EXCEPT ![DName(r)] = DPort(r)]
          /\ DeployGoto(r, "dreload")
    /\ UNCHANGED << rows, dirs, bins, enabled, running, caddyfile, createVars, opVars >>
    /\ UNCHANGED hookVars

\* daemon-reload returns
DeployDaemonReload(r) ==
    /\ dpc[r] = "dreload"
    /\ \/ /\ CanFail /\ Fault
          /\ DeployGoto(r, "fail")
       \/ /\ NoFault
          /\ DeployGoto(r, "enable")
    /\ UNCHANGED << rows, sysVars, createVars, opVars >>
    /\ UNCHANGED hookVars

\* systemctl enable, then systemctl start; then the 5 s sleep
DeployEnable(r) ==
    /\ dpc[r] = "enable"
    /\ \/ /\ units[DName(r)] = NoUnit               \* no unit file to enable
          /\ NoFault
          /\ DeployGoto(r, "fail")
          /\ UNCHANGED << enabled, running >>
       \/ /\ units[DName(r)] # NoUnit
          /\ CanFail /\ Fault                       \* enable fails
          /\ DeployGoto(r, "fail")
          /\ UNCHANGED << enabled, running >>
       \/ /\ units[DName(r)] # NoUnit
          /\ CanFail /\ Fault                       \* start fails
          /\ enabled' = enabled \cup { DName(r) }
          /\ DeployGoto(r, "fail")
          /\ UNCHANGED running
       \/ /\ units[DName(r)] # NoUnit
          /\ NoFault
          /\ enabled' = enabled \cup { DName(r) }
          /\ running' = Started(running, DName(r), units[DName(r)])
          /\ DeployGoto(r, "caddycheck")
    /\ UNCHANGED << rows, dirs, bins, units, caddyfile, createVars, opVars >>
    /\ UNCHANGED hookVars

\* caddy.Manager.AddService up to its configExists test (lines 50-75)
DeployCaddyCheck(r) ==
    /\ dpc[r] = "caddycheck"
    /\ \/ /\ configExists(caddyfile, DName(r))
          /\ NoFault
          /\ DeployGoto(r, "fail")
       \/ /\ ~configExists(caddyfile, DName(r))
          /\ NoFault
          /\ DeployGoto(r, "caddyappend")
    /\ UNCHANGED << rows, sysVars, createVars, opVars >>
    /\ UNCHANGED hookVars

\* caddy.Manager.AddService appends the block (lines 77-88)
DeployCaddyAppend(r) ==
    /\ dpc[r] = "caddyappend"
    /\ \/ /\ CanFail /\ Fault
          /\ DeployGoto(r, "fail")
          /\ UNCHANGED caddyfile
       \/ /\ NoFault
          /\ caddyfile' = caddyfile \o ConfigTemplate(DName(r), DPort(r))
          /\ DeployGoto(r, "caddyreload")
    /\ UNCHANGED << rows, dirs, bins, units, enabled, running, createVars, opVars >>
    /\ UNCHANGED hookVars

\* caddy.Manager.ReloadConfig: caddy validate, then systemctl reload caddy
DeployCaddyReload(r) ==
    /\ dpc[r] = "caddyreload"
    /\ \/ /\ ~ValidateConfig(caddyfile)
          /\ NoFault
          /\ DeployGoto(r, "fail")
       \/ /\ ValidateConfig(caddyfile)
          /\ CanFail /\ Fault
          /\ DeployGoto(r, "fail")
       \/ /\ ValidateConfig(caddyfile)
          /\ NoFault
          /\ DeployGoto(r, "setactive")
    /\ UNCHANGED << rows, sysVars, createVars, opVars >>
    /\ UNCHANGED hookVars

\* UpdateServiceStatus(id, "active"), then UpdateConfigHashes: both look the
\* row up and fail when it is gone (lines 217-233)
DeployActive(r) ==
    /\ dpc[r] = "setactive"
    /\ IF rows[r] = NoRow
       THEN /\ DeployGoto(r, "fail")
            /\ UNCHANGED rows
       ELSE /\ rows' = [UpdateServiceStatus(rows, r, "active") EXCEPT ![r].hashed = TRUE]
            /\ DeployGoto(r, "done")
    /\ UNCHANGED << sysVars, createVars, opVars, faults >>
    /\ UNCHANGED hookVars

\* the goroutine's error branch: UpdateServiceStatus(id, "error"), its own
\* error dropped (CreateService lines 146-151)
DeployFailed(r) ==
    /\ dpc[r] = "fail"
    /\ rows' = UpdateServiceStatus(rows, r, "error")
    /\ DeployGoto(r, "failed")
    /\ UNCHANGED << sysVars, createVars, opVars, faults >>
    /\ UNCHANGED hookVars

\* ------------------------------------ Orchestrator.DeleteService

OpGoto(pc) == op' = [op EXCEPT !.pc = pc]
OpReturn(res) == op' = [op EXCEPT !.pc = "idle", !.res = res, !.content = <<>>,
                                  !.gone = {}, !.busy = FALSE]

\* the artifacts of service n that do not exist
Missing(n) ==
    (IF units[n] = NoUnit THEN { "unit" } ELSE {})
        \cup (IF \E i \in DOMAIN caddyfile :
                     caddyfile[i].k = "hdr" /\ caddyfile[i].s = n /\ caddyfile[i].o = n
              THEN {} ELSE { "block" })

\* the request arrives; GetService (lines 257-261)
DeleteBegin(id) ==
    /\ op.pc = "idle"
    /\ opsLeft > 0
    /\ opsLeft' = opsLeft - 1
    /\ op' = IF rows[id] = NoRow
             THEN [IdleOp EXCEPT !.kind = "delete", !.id = id, !.res = "error"]
             ELSE [IdleOp EXCEPT !.kind = "delete", !.id = id, !.pc = "disable",
                                 !.name = rows[id].name,
                                 !.gone = Missing(rows[id].name),
                                 !.busy = \E r \in Reqs :
                                     \/ cpc[r] \notin { "idle", "done" }
                                     \/ dpc[r] \notin { "idle", "done", "failed" }]
    /\ UNCHANGED << rows, sysVars, createVars, dpc, faults >>
    /\ UNCHANGED hookVars

\* systemd.Manager.RemoveService: DisableService, its error dropped
DeleteDisable ==
    /\ op.kind = "delete" /\ op.pc = "disable"
    /\ running' = Stopped(running, op.name)
    /\ enabled' = enabled \ { op.name }
    /\ OpGoto("rmunit")
    /\ UNCHANGED << rows, dirs, bins, units, caddyfile, createVars, dpc, opsLeft, faults >>
    /\ UNCHANGED hookVars

\* systemd.Manager.RemoveService: os.Remove of the unit file, a missing file
\* tolerated; daemon-reload is then invoked
DeleteUnit ==
    /\ op.kind = "delete" /\ op.pc = "rmunit"
    /\ \/ /\ CanFail /\ Fault
          /\ OpReturn("error")
          /\ UNCHANGED units
       \/ /\ NoFault
          /\ units' = [units EXCEPT ![op.name] = NoUnit]
          /\ OpGoto("dreload")
    /\ UNCHANGED << rows, dirs, bins, enabled, running, caddyfile, createVars, dpc, opsLeft >>
    /\ UNCHANGED hookVars

\* daemon-reload returns
DeleteDaemonReload ==
    /\ op.kind = "delete" /\ op.pc = "dreload"
    /\ \/ /\ CanFail /\ Fault
          /\ OpReturn("error")
       \/ /\ NoFault
          /\ OpGoto("caddyread")
    /\ UNCHANGED << rows, sysVars, createVars, dpc, opsLeft >>
    /\ UNCHANGED hookVars

\* caddy.Manager.RemoveService reads the whole file (lines 93-97)
DeleteCaddyRead ==
    /\ op.kind = "delete" /\ op.pc = "caddyread"
    /\ op' = [op EXCEPT !.pc = "caddywrite", !.content = caddyfile]
    /\ UNCHANGED << rows, sysVars, createVars, dpc, opsLeft, faults >>
    /\ UNCHANGED hookVars

\* caddy.Manager.RemoveService writes back what it read, less the matches
\* of its pattern (lines 99-112)
DeleteCaddyWrite ==
    /\ op.kind = "delete" /\ op.pc = "caddywrite"
    /\ \/ /\ CanFail /\ Fault
          /\ OpReturn("error")
          /\ UNCHANGED caddyfile
       \/ /\ NoFault
          /\ caddyfile' = RemoveBlock(op.content, op.name)
          /\ op' = [op EXCEPT !.pc = "caddyreload", !.content = <<>>]
    /\ UNCHANGED << rows, dirs, bins, units, enabled, running, createVars, dpc, opsLeft >>
    /\ UNCHANGED hookVars

\* caddy.Manager.ReloadConfig
DeleteCaddyReload ==
    /\ op.kind = "delete" /\ op.pc = "caddyreload"
    /\ \/ /\ ~ValidateConfig(caddyfile)
          /\ NoFault
          /\ OpReturn("error")
       \/ /\ ValidateConfig(caddyfile)
          /\ CanFail /\ Fault
          /\ OpReturn("error")
       \/ /\ ValidateConfig(caddyfile)
          /\ NoFault
          /\ OpGoto("remove")
    /\ UNCHANGED << rows, sysVars, createVars, dpc, opsLeft >>
    /\ UNCHANGED hookVars

\* service.Manager.Remove: stop, disable, os.Remove of the unit file, all
\* errors dropped; daemon-reload is then invoked (lines 463-480)
DeleteRemove ==
    /\ op.kind = "delete" /\ op.pc = "remove"
    /\ running' = Stopped(running, op.name)
    /\ enabled' = enabled \ { op.name }
    /\ units' = [units EXCEPT ![op.name] = NoUnit]
    /\ OpGoto("rmdir")
    /\ UNCHANGED << rows, dirs, bins, caddyfile, createVars, dpc, opsLeft, faults >>
    /\ UNCHANGED hookVars

\* service.Manager.Remove: daemon-reload returns, its error dropped, then
\* os.RemoveAll of the service directory (lines 482-487)
DeleteDir ==
    /\ op.kind = "delete" /\ op.pc = "rmdir"
    /\ \/ /\ CanFail /\ Fault
          /\ OpReturn("error")
          /\ UNCHANGED << dirs, bins >>
       \/ /\ NoFault
          /\ dirs' = dirs \ { op.name }
          /\ bins' = [bins EXCEPT ![op.name] = "none"]
          /\ OpGoto("dbdelete")
    /\ UNCHANGED << rows, units, enabled, running, caddyfile, createVars, dpc, opsLeft >>
    /\ UNCHANGED hookVars

\* database.Manager.DeleteService, then the success response (lines 291-299)
DeleteRow ==
    /\ op.kind = "delete" /\ op.pc = "dbdelete"
    /\ IF rows[op.id] = NoRow
       THEN /\ OpReturn("error")
            /\ UNCHANGED rows
       ELSE /\ rows' = [rows EXCEPT ![op.id] = NoRow]
            /\ OpReturn("success")
    /\ UNCHANGED << sysVars, createVars, dpc, opsLeft, faults >>
    /\ UNCHANGED hookVars

\* ------------------------------------ Orchestrator.ControlService

\* the request arrives; GetService (lines 303-307)
ControlBegin(id, action) ==
    /\ op.pc = "idle"
    /\ opsLeft > 0
    /\ opsLeft' = opsLeft - 1
    /\ op' = IF rows[id] = NoRow
             THEN [IdleOp EXCEPT !.kind = "control", !.id = id, !.act = action,
                                 !.res = "error"]
             ELSE [IdleOp EXCEPT !.kind = "control", !.id = id, !.act = action,
                                 !.pc = "systemctl", !.name = rows[id].name]
    /\ UNCHANGED << rows, sysVars, createVars, dpc, faults >>
    /\ UNCHANGED hookVars

\* service.Manager.Start / Stop / Restart: systemctl on the unit; it fails
\* on a unit that does not exist (lines 309-324)
ControlCommand ==
    /\ op.kind = "control" /\ op.pc = "systemctl"
    /\ \/ /\ units[op.name] = NoUnit
          /\ NoFault
          /\ OpReturn("error")
          /\ UNCHANGED running
       \/ /\ units[op.name] # NoUnit
          /\ CanFail /\ Fault
          /\ OpReturn("error")
          /\ UNCHANGED running
       \/ /\ units[op.name] # NoUnit
          /\ NoFault
          /\ running' = IF op.act = "stop" THEN Stopped(running, op.name)
                        ELSE IF op.act = "start"
                             THEN Started(running, op.name, units[op.name])
                             ELSE Started(Stopped(running, op.name), op.name,
                                          units[op.name])
          /\ OpGoto("status")
    /\ UNCHANGED << rows, dirs, bins, units, enabled, caddyfile, createVars, dpc, opsLeft >>
    /\ UNCHANGED hookVars

\* newStatus of ControlService (lines 326-330)
NewStatusActive(action) == "active"
NewStatus(action) == IF action = "stop" THEN "inactive" ELSE "active"

\* UpdateServiceStatus with the new status, then the response (lines 326-341)
ControlStatus ==
    /\ op.kind = "control" /\ op.pc = "status"
    /\ IF rows[op.id] = NoRow
       THEN /\ OpReturn("error")
            /\ UNCHANGED rows
       ELSE /\ rows' = UpdateServiceStatus(rows, op.id, NewStatus(op.act))
            /\ OpReturn("success")
    /\ UNCHANGED << sysVars, createVars, dpc, opsLeft, faults >>
    /\ UNCHANGED hookVars

NextOf(R) ==
    \/ \E r \in R : CreateBegin(r)
    \/ \E r \in R : CreatePorts(r)
    \/ \E r \in R : CreateValidate(r)
    \/ \E r \in R : CreatePersist(r)
    \/ \E r \in R : DeployFiles(r)
    \/ \E r \in R : DeployUnit(r)
    \/ \E r \in R : DeployDaemonReload(r)
    \/ \E r \in R : DeployEnable(r)
    \/ \E r \in R : DeployCaddyCheck(r)
    \/ \E r \in R : DeployCaddyAppend(r)
    \/ \E r \in R : DeployCaddyReload(r)
    \/ \E r \in R : DeployActive(r)
    \/ \E r \in R : DeployFailed(r)
    \/ \E id \in R : DeleteBegin(id)
    \/ DeleteDisable
    \/ DeleteUnit
    \/ DeleteDaemonReload
    \/ DeleteCaddyRead
    \/ DeleteCaddyWrite
    \/ DeleteCaddyReload
    \/ DeleteRemove
    \/ DeleteDir
    \/ DeleteRow
    \/ \E id \in R, action \in Actions : ControlBegin(id, action)
    \/ ControlCommand
    \/ ControlStatus

Next == NextOf(Reqs)

Spec == Init /\ [][Next]_vars

\* the deployment goroutine of request r, whatever step it is at
DeployStep(r) ==
    \/ DeployFiles(r) \/ DeployUnit(r) \/ DeployDaemonReload(r) \/ DeployEnable(r)
    \/ DeployCaddyCheck(r) \/ DeployCaddyAppend(r) \/ DeployCaddyReload(r)
    \/ DeployActive(r) \/ DeployFailed(r)

\* the Go scheduler runs every runnable goroutine, and every command a
\* deployment shells out to returns
FairSpec ==
    /\ Init
    /\ [][NextOf(LiveReqs)]_vars
    /\ \A r \in LiveReqs : WF_vars(DeployStep(r))

\* ------------------------------------------------- the two port allocators

\* ServiceValidator.ValidatePortAvailable with no service excluded: the range,
\* then the repository, then net.Listen on the port
ValidatePortAvailable(port, usedPorts, heldPorts) ==
    /\ port >= HooksMinPort /\ port <= HooksMaxPort
    /\ port \notin usedPorts
    /\ port \notin heldPorts

MaxOf(S) == CHOOSE m \in S : \A x \in S : x <= m

RECURSIVE ProbeFrom(_, _, _)
ProbeFrom(port, usedPorts, heldPorts) ==
    IF port >= ProbeLimit THEN [by |-> "hooks", port |-> 0, err |-> TRUE]
    ELSE IF ValidatePortAvailable(port, usedPorts, heldPorts)
         THEN [by |-> "hooks", port |-> port, err |-> FALSE]
         ELSE ProbeFrom(port + 1, usedPorts, heldPorts)

\* ServiceValidator.GetNextAvailablePort: one past the highest port of the
\* rows, 8091 when there is none, then the first port from there that passes
\* ValidatePortAvailable
GetNextAvailablePort(usedPorts, heldPorts) ==
    ProbeFrom(IF usedPorts = {} THEN BasePort ELSE MaxOf(usedPorts) + 1,
              usedPorts, heldPorts)

\* the repositories and the listeners the allocators are called against
PortInit ==
    /\ rows = [r \in Reqs |-> NoRow]
    /\ MonIdle
    /\ dirs = {}
    /\ bins = [n \in Names |-> "none"]
    /\ units = [n \in Names |-> NoUnit]
    /\ enabled = {}
    /\ running = {}
    /\ caddyfile = <<>>
    /\ cpc = [r \in Reqs |-> "idle"]
    /\ creq = [r \in Reqs |-> NoReq]
    /\ cnames = [r \in Reqs |-> {}]
    /\ cports = [r \in Reqs |-> {}]
    /\ resp = [r \in Reqs |-> NoResp]
    /\ dpc = [r \in Reqs |-> "idle"]
    /\ op = IdleOp
    /\ opsLeft = 0
    /\ faults = 0
    /\ used \in SUBSET PortPool
    /\ held \in SUBSET HeldPool
    /\ assigned = NoPort
    /\ journal = <<>>
    /\ rb = NoRb
    /\ scm = IdleScm
    /\ rec = NoSvc

\* Orchestrator.CreateService, no port in the request (lines 103-109)
CallGetNextPort ==
    /\ assigned.by = "none"
    /\ assigned' = [by |-> "pkg", port |-> GetNextPort(used), err |-> FALSE]
    /\ UNCHANGED << used, held, pkgVars, rollbackVars, scmVars >>

\* ServiceHooks, no port in the record (part_013 line 172)
CallGetNextAvailablePort ==
    /\ assigned.by = "none"
    /\ assigned' = GetNextAvailablePort(used, held)
    /\ UNCHANGED << used, held, pkgVars, rollbackVars, scmVars >>

\* the row is saved with the port it was given
SavePort ==
    /\ assigned.by # "none"
    /\ ~assigned.err
    /\ Cardinality(used) < MaxRows
    /\ used' = used \cup { assigned.port }
    /\ assigned' = NoPort
    /\ UNCHANGED << held, pkgVars, rollbackVars, scmVars >>

PortNext == CallGetNextPort \/ CallGetNextAvailablePort \/ SavePort

PortSpec == PortInit /\ [][PortNext]_vars

\* ------------------------------- SystemdManagerImpl and CaddyManagerImpl

\* fmt.Sprintf("%d", n) for n >= 0, as a sequence of digits
RECURSIVE Itoa(_)
Itoa(n) == IF n < 10 THEN << n >> ELSE Append(Itoa(n \div 10), n % 10)

\* strconv.Atoi of a sequence of digits
RECURSIVE Atoi(_)
Atoi(ds) ==
    IF ds = <<>> THEN 0
    ELSE 10 * Atoi(SubSeq(ds, 1, Len(ds) - 1)) + ds[Len(ds)]

\* generateServiceContent: the number whose rendering stands after
\* --http=127.0.0.1: in ExecStart
generateServiceContent(service) == service.port

\* extractPortFromSystemd: the digits after --http=127.0.0.1: in the unit
\* file of the service, converted; an error without the file
extractPortFromSystemd(serviceName) ==
    IF units[serviceName] = NoUnit
    THEN [err |-> TRUE, port |-> 0]
    ELSE [err |-> FALSE, port |-> Atoi(Itoa(units[serviceName]))]

\* generateConfig: the site block of the service (part_016 lines 184-192)
generateConfigBlank(service) ==
    << Tok("hdr", service.sub, 0, service.sub), Tok("open", <<>>, 0, service.sub),
       Tok("close", <<>>, 0, service.sub) >>
generateConfig(service) ==
    << Tok("hdr", service.sub, 0, service.sub), Tok("open", <<>>, 0, service.sub),
       Tok("dir", <<"reverse_proxy">>, service.port, service.sub),
       Tok("dir", <<"header">>, 0, service.sub),
       Tok("dir", <<"encode">>, 0, service.sub),
       Tok("close", <<>>, 0, service.sub) >>

\* CaddyManagerImpl.configExists: `<sub>\.<domain> \{` matches somewhere, that
\* is, a header whose subdomain ends with sub opens a block
implConfigExists(content, subdomain) ==
    \E i \in DOMAIN content :
        /\ content[i].k = "hdr" /\ IsSuffix(subdomain, content[i].s)
        /\ i + 1 <= Len(content) /\ content[i + 1].k = "open"

\* CaddyManagerImpl.removeConfig: every match of
\* `<sub>\.<domain> \{[^}]*\}\s*` replaced by ""
removeConfig(content, subdomain) == RemoveBlock(content, subdomain)

\* the file AddConfiguration writes (part_016 lines 44-58)
AddConfigurationContent(content, service) ==
    (IF implConfigExists(content, service.sub)
     THEN removeConfig(content, service.sub) ELSE content)
        \o generateConfig(service)

\* the file RemoveConfiguration leaves; the name of the service is taken for
\* its subdomain (part_016 lines 77-91)
RemoveConfigurationContent(content, serviceName) ==
    IF implConfigExists(content, serviceName)
    THEN removeConfig(content, serviceName) ELSE content

\* the port the block opened by the header at position i proxies to, 0 when
\* it has no reverse_proxy before its first "}"
BlockPort(content, i) ==
    LET j == FirstClose(content, i + 2)
        ds == { k \in (i + 2) .. (IF j = 0 THEN i + 1 ELSE j - 1) :
                  content[k].k = "dir" /\ content[k].s = <<"reverse_proxy">> }
    IN IF i + 1 > Len(content) \/ content[i + 1].k # "open" \/ j = 0 \/ ds = {}
       THEN 0
       ELSE content[CHOOSE k \in ds : \A m \in ds : k <= m].p

IsPrefix(p, s) == Len(p) <= Len(s) /\ SubSeq(s, 1, Len(p)) = p

\* `<sub>\.<domain> \{[^}]*reverse_proxy 127\.0\.0\.1:<port>[^}]*\}` matches
\* at the header at position j: the header ends with sub, and before the
\* first "}" of its block stands a reverse_proxy whose port starts with the
\* digits of port
ProxiesTo(content, j, sub, port) ==
    LET c == FirstClose(content, j + 2) IN
    /\ content[j].k = "hdr" /\ IsSuffix(sub, content[j].s)
    /\ j + 1 <= Len(content) /\ content[j + 1].k = "open"
    /\ c # 0
    /\ \E k \in (j + 2) .. (c - 1) :
         /\ content[k].k = "dir" /\ content[k].s = <<"reverse_proxy">>
         /\ IsPrefix(Itoa(port), Itoa(content[k].p))

\* extractSubdomainFromCaddy: of the blocks that hold a reverse_proxy before
\* their first "}", in the order of the file, the subdomain of the first one
\* for which the pattern built from that subdomain and the port of the unit
\* file of the service matches somewhere in the file
extractSubdomainFromCaddy(serviceName) ==
    LET port == extractPortFromSystemd(serviceName)
        hits == { i \in DOMAIN caddyfile :
                    /\ caddyfile[i].k = "hdr"
                    /\ ~port.err
                    /\ BlockPort(caddyfile, i) # 0
                    /\ \E j \in DOMAIN caddyfile :
                         ProxiesTo(caddyfile, j, caddyfile[i].s, port.port) }
    IN IF hits = {} THEN [err |-> TRUE, sub |-> <<>>]
       ELSE [err |-> FALSE,
             sub |-> caddyfile[CHOOSE i \in hits : \A m \in hits : i <= m].s]

\* SyncSystemToService, up to the repository update (lines 85-118)
SyncedService(service) ==
    LET port == extractPortFromSystemd(service.name)
        subdomain == extractSubdomainFromCaddy(service.name)
    IN [name |-> service.name,
        port |-> IF ~port.err /\ port.port # service.port
                 THEN port.port ELSE service.port,
        sub |-> IF ~subdomain.err /\ subdomain.sub # service.sub
                THEN subdomain.sub ELSE service.sub,
        status |-> IF IsRunning(service.name) THEN "running" ELSE "stopped"]

\* DetectConflicts: the fields for which the files or the supervisor say
\* something else than the record (lines 129-185)
DetectConflicts(service) ==
    LET systemdPort == extractPortFromSystemd(service.name)
        subdomain == extractSubdomainFromCaddy(service.name)
        systemStatus == IF IsRunning(service.name) THEN "running" ELSE "stopped"
    IN (IF ~systemdPort.err /\ systemdPort.port # service.port
        THEN { "port" } ELSE {})
       \cup (IF ~subdomain.err /\ subdomain.sub # service.sub
             THEN { "subdomain" } ELSE {})
       \cup (IF systemStatus # service.status THEN { "status" } ELSE {})

\* ValidateServiceConfig: the issues it lists (lines 188-220)
ValidateServiceConfig(service) ==
    LET systemdPort == extractPortFromSystemd(service.name)
        subdomain == extractSubdomainFromCaddy(service.name)
    IN (IF systemdPort.err \/ systemdPort.port # service.port
        THEN { "port" } ELSE {})
       \cup (IF subdomain.err \/ subdomain.sub # service.sub
             THEN { "subdomain" } ELSE {})
       \cup (IF bins[service.name] = "none" THEN { "binary" } ELSE {})

\* whether the closure of a journal entry can return nil: systemctl start
\* needs the unit file, a reload needs a file caddy accepts
CanExecute(e) ==
    CASE e.act \in { "start", "restart" } -> units[e.svc.name] # NoUnit
      [] e.act = "rmblock" ->
            ValidateConfig(RemoveConfigurationContent(caddyfile, e.svc.name))
      [] e.act = "block" ->
            ValidateConfig(AddConfigurationContent(caddyfile, e.svc))
      [] OTHER -> TRUE

\* what the closure of a journal entry does when it returns nil
\* (part_018 lines 79-108, 256-258, 271-276, 290-295, 312-314, 324-326,
\* 353-364, 375-380)
Execute(e) ==
    CASE e.act = "rmdir" ->
            /\ dirs' = dirs \ { e.svc.name }
            /\ bins' = [bins EXCEPT ![e.svc.name] = "none"]
            /\ UNCHANGED << units, enabled, running, caddyfile >>
      [] e.act = "rmbin" ->
            /\ bins' = [bins EXCEPT ![e.svc.name] = "none"]
            /\ UNCHANGED << dirs, units, enabled, running, caddyfile >>
      [] e.act = "rmunit" ->
            /\ running' = Stopped(running, e.svc.name)
            /\ enabled' = enabled \ { e.svc.name }
            /\ units' = [units EXCEPT ![e.svc.name] = NoUnit]
            /\ UNCHANGED << dirs, bins, caddyfile >>
      [] e.act = "rmblock" ->
            /\ caddyfile' = RemoveConfigurationContent(caddyfile, e.svc.name)
            /\ UNCHANGED << dirs, bins, units, enabled, running >>
      [] e.act = "unit" ->
            /\ units' = [units EXCEPT ![e.svc.name] = generateServiceContent(e.svc)]
            /\ UNCHANGED << dirs, bins, enabled, running, caddyfile >>
      [] e.act = "block" ->
            /\ caddyfile' = AddConfigurationContent(caddyfile, e.svc)
            /\ UNCHANGED << dirs, bins, units, enabled, running >>
      [] e.act = "start" ->
            /\ running' = Started(running, e.svc.name, units[e.svc.name])
            /\ UNCHANGED << dirs, bins, units, enabled, caddyfile >>
      [] e.act = "stop" ->
            /\ running' = Stopped(running, e.svc.name)
            /\ UNCHANGED << dirs, bins, units, enabled, caddyfile >>
      [] e.act = "restore" ->
            /\ units' = [units EXCEPT ![e.svc.name] = generateServiceContent(e.svc)]
            /\ enabled' = enabled \cup { e.svc.name }
            /\ running' = IF e.svc.status = "running"
                           THEN Started(running, e.svc.name,
                                        generateServiceContent(e.svc))
                           ELSE running
            /\ UNCHANGED << dirs, bins, caddyfile >>
      [] OTHER -> UNCHANGED sysVars

\* --------------------------------------------------------- RollbackManager

\* the construction of every component, nothing called yet
Constructed ==
    /\ rows = [r \in Reqs |-> NoRow]
    /\ dirs = {}
    /\ bins = [n \in Names |-> "none"]
    /\ units = [n \in Names |-> NoUnit]
    /\ enabled = {}
    /\ running = {}
    /\ caddyfile = <<>>
    /\ cpc = [r \in Reqs |-> "idle"]
    /\ creq = [r \in Reqs |-> NoReq]
    /\ cnames = [r \in Reqs |-> {}]
    /\ cports = [r \in Reqs |-> {}]
    /\ resp = [r \in Reqs |-> NoResp]
    /\ dpc = [r \in Reqs |-> "idle"]
    /\ op = IdleOp
    /\ opsLeft = 0
    /\ faults = 0
    /\ HookIdle

\* a journal entry: its type, what its closure does (act) to which service,
\* and the call that registered it; desc tells the closures of a test apart
Entry(type, act, svc, n) ==
    [type |-> type, act |-> act, svc |-> svc, n |-> n, desc |-> 0]
TestEntry(desc) ==
    [type |-> "test", act |-> "none", svc |-> NoSvc, n |-> 0, desc |-> desc]
TestOperations == { TestEntry(d) : d \in 1 .. 2 }

\* Clear replaces the slice by an empty one (lines 74-76)
ClearedNot(operations) == operations
Cleared(operations) == <<>>

\* AddOperation appends (lines 34-40)
AddOperation(type) ==
    /\ rb.pc = "idle"
    /\ Len(journal) < MaxJournal
    /\ journal' = Append(journal, type)
    /\ UNCHANGED << rb, portVars, scmVars, pkgVars >>

\* Rollback is called: nothing to do on an empty journal (lines 44-46),
\* otherwise the loop starts at the last entry (line 54)
RollbackBegin ==
    /\ rb.pc = "idle"
    /\ rb' = IF Len(journal) = 0
             THEN [NoRb EXCEPT !.pc = "returned"]
             ELSE [NoRb EXCEPT !.pc = "run", !.i = Len(journal), !.n = Len(journal)]
    /\ UNCHANGED << journal, portVars, scmVars, pkgVars >>

\* the entry the loop executes when its counter is i, of n entries (line 55)
EntryAtForward(i, n) == n - i + 1
EntryAt(i, n) == i

\* the counter after an entry returned an error: the loop goes on (lines 58-61)
AfterErrorStop(i) == 0
AfterError(i) == i - 1

\* one turn of the loop: the entry is executed and succeeds or fails
\* (lines 54-62)
RollbackStep ==
    /\ rb.pc = "run" /\ rb.i >= 1
    /\ \E ok \in BOOLEAN :
         LET e == EntryAt(rb.i, rb.n) IN
         /\ ok => CanExecute(journal[e])
         /\ rb' = (IF ok
                   THEN [rb EXCEPT !.i = rb.i - 1, !.ran = Append(rb.ran, e)]
                   ELSE [rb EXCEPT !.i = AfterError(rb.i), !.ran = Append(rb.ran, e),
                                   !.lastErr = e, !.failed = rb.failed \cup { e }])
         /\ IF ok THEN Execute(journal[e]) ELSE UNCHANGED sysVars
    /\ UNCHANGED << journal, portVars, scmVars, procVars >>

\* the loop is over: the journal is emptied and the last error, if any, is
\* wrapped and returned (lines 64-70)
RollbackEnd ==
    /\ rb.pc = "run" /\ rb.i = 0
    /\ journal' = <<>>
    /\ rb' = [rb EXCEPT !.pc = "returned",
                        !.carried = IF rb.lastErr = 0 THEN {} ELSE { rb.lastErr }]
    /\ UNCHANGED << portVars, scmVars, pkgVars >>

\* the caller has the result
RollbackReturn ==
    /\ rb.pc = "returned"
    /\ rb' = NoRb
    /\ UNCHANGED << journal, portVars, scmVars, pkgVars >>

\* Clear (lines 74-76)
Clear ==
    /\ rb.pc = "idle"
    /\ journal # <<>>
    /\ journal' = Cleared(journal)
    /\ UNCHANGED << rb, portVars, scmVars, pkgVars >>

RollbackNext ==
    \/ \E type \in TestOperations : AddOperation(type)
    \/ RollbackBegin
    \/ RollbackStep
    \/ RollbackEnd
    \/ RollbackReturn
    \/ Clear

RollbackSpec == Constructed /\ [][RollbackNext]_vars

\* ------------------------------ ServiceHooks and ServiceCreationManager

ScmGoto(pc) == scm' = [scm EXCEPT !.pc = pc]
ScmReturn(res) == scm' = [scm EXCEPT !.pc = "idle", !.res = res]
\* a step failed: Rollback is called and fmt.Errorf(label + ": %w", err) is
\* what the operation will return
ScmFail(label) == scm' = [scm EXCEPT !.pc = "rollback", !.label = label]
Registered(type, act, svc) == Append(journal, Entry(type, act, svc, scm.n))
scmFrame == << rows, createVars, dpc, opVars, portVars, monVars >>
Failed(record) == IF record = NoSvc THEN NoSvc ELSE [record EXCEPT !.status = "error"]

\* onServiceCreate runs for the record just saved with status creating
\* (part_013 lines 183, 192-220); CreateService starts with Clear
HookCreateBegin(name, sub, port) ==
    /\ scm.pc = "idle" /\ rec = NoSvc /\ scm.n < MaxCalls
    /\ rec' = [name |-> name, sub |-> sub, port |-> port, status |-> "creating"]
    /\ scm' = [IdleScm EXCEPT !.kind = "create", !.pc = "mkdir", !.svc = rec',
                              !.n = scm.n + 1]
    /\ journal' = Cleared(journal)
    /\ UNCHANGED << sysVars, faults, scmFrame, rb >>

\* os.MkdirAll of the service directory; its failure returns with no
\* Rollback (lines 146-153)
ScmMkdir ==
    /\ scm.kind = "create" /\ scm.pc = "mkdir"
    /\ \/ /\ CanFail /\ Fault
          /\ scm' = [scm EXCEPT !.pc = "idle", !.res = "error",
                                !.label = "failed to create project directory"]
          /\ rec' = Failed(rec)
          /\ UNCHANGED << journal, sysVars >>
       \/ /\ NoFault
          /\ dirs' = dirs \cup { scm.svc.name }
          /\ journal' = Registered("directory", "rmdir", scm.svc)
          /\ ScmGoto("download")
          /\ UNCHANGED << rec, bins, units, enabled, running, caddyfile >>
    /\ UNCHANGED << scmFrame, rb >>

\* DownloadPocketBase (lines 155-162)
ScmDownload ==
    /\ scm.kind = "create" /\ scm.pc = "download"
    /\ \/ /\ CanFail /\ Fault
          /\ ScmFail("failed to download PocketBase")
          /\ UNCHANGED journal
       \/ /\ NoFault
          /\ journal' = Registered("file", "rmzip", scm.svc)
          /\ ScmGoto("extract")
    /\ UNCHANGED << sysVars, scmFrame, rb, rec >>

\* ExtractPocketBase (lines 164-171)
ScmExtract ==
    /\ scm.kind = "create" /\ scm.pc = "extract"
    /\ \/ /\ CanFail /\ Fault
          /\ ScmFail("failed to extract PocketBase")
          /\ UNCHANGED << journal, bins >>
       \/ /\ NoFault
          /\ bins' = [bins EXCEPT ![scm.svc.name] = "file"]
          /\ journal' = Registered("file", "rmbin", scm.svc)
          /\ ScmGoto("prepare")
    /\ UNCHANGED << dirs, units, enabled, running, caddyfile, scmFrame, rb, rec >>

\* SetPermissions and the pb_ directories (lines 173-193)
ScmPrepare ==
    /\ scm.kind = "create" /\ scm.pc = "prepare"
    /\ \/ /\ CanFail /\ Fault
          /\ ScmFail("failed to set permissions")
          /\ UNCHANGED bins
       \/ /\ CanFail /\ Fault
          /\ ScmFail("failed to create directory")
          /\ bins' = [bins EXCEPT ![scm.svc.name] = "exec"]
       \/ /\ NoFault
          /\ bins' = [bins EXCEPT ![scm.svc.name] = "exec"]
          /\ ScmGoto("unit")
    /\ UNCHANGED << journal, dirs, units, enabled, running, caddyfile, scmFrame, rb, rec >>

\* systemdManager.CreateService, its compensator registered after it
\* (lines 195-201)
ScmUnit ==
    /\ scm.kind = "create" /\ scm.pc = "unit"
    /\ \/ /\ CanFail /\ Fault
          /\ ScmFail("failed to create systemd service")
          /\ UNCHANGED << journal, units >>
       \/ /\ NoFault
          /\ units' = [units EXCEPT ![scm.svc.name] = generateServiceContent(scm.svc)]
          /\ journal' = Registered("systemd", "rmunit", scm.svc)
          /\ ScmGoto("enable")
    /\ UNCHANGED << dirs, bins, enabled, running, caddyfile, scmFrame, rb, rec >>

\* EnableService (lines 203-208)
ScmEnable ==
    /\ scm.kind = "create" /\ scm.pc = "enable"
    /\ \/ /\ CanFail /\ Fault
          /\ ScmFail("failed to enable systemd service")
          /\ UNCHANGED enabled
       \/ /\ NoFault
          /\ enabled' = enabled \cup { scm.svc.name }
          /\ ScmGoto("caddy")
    /\ UNCHANGED << journal, dirs, bins, units, running, caddyfile, scmFrame, rb, rec >>

\* CaddyManagerImpl.AddConfiguration called with service, then goto: the
\* read or the write fails, or the file is written and the reload fails,
\* or all of it succeeds
AddConfiguration(service, then, label) ==
    LET content == AddConfigurationContent(caddyfile, service) IN
    \/ /\ CanFail /\ Fault
       /\ ScmFail(label)
       /\ UNCHANGED caddyfile
    \/ /\ CanFail /\ Fault
       /\ ScmFail(label)
       /\ caddyfile' = content
    \/ /\ ~ValidateConfig(content)
       /\ NoFault
       /\ ScmFail(label)
       /\ caddyfile' = content
    \/ /\ ValidateConfig(content)
       /\ NoFault
       /\ ScmGoto(then)
       /\ caddyfile' = content

\* caddyManager.AddConfiguration, its compensator registered after it
\* (lines 210-216)
ScmCaddy ==
    /\ scm.kind = "create" /\ scm.pc = "caddy"
    /\ AddConfiguration(scm.svc, "start", "failed to add Caddy configuration")
    /\ journal' = IF scm'.pc = "start"
                  THEN Registered("caddy", "rmblock", scm.svc) ELSE journal
    /\ UNCHANGED << dirs, bins, units, enabled, running, scmFrame, rb, rec >>

\* StartService (lines 218-223)
ScmStart ==
    /\ scm.kind = "create" /\ scm.pc = "start"
    /\ \/ /\ CanFail /\ Fault
          /\ ScmFail("failed to start service")
          /\ UNCHANGED running
       \/ /\ NoFault
          /\ running' = Started(running, scm.svc.name, units[scm.svc.name])
          /\ ScmGoto("superuser")
    /\ UNCHANGED << journal, dirs, bins, units, enabled, caddyfile, scmFrame, rb, rec >>

\* where CreateService goes on when CreateSuperUser returned an error: the
\* error is logged and nothing else (lines 227-230)
AfterSuperUserErrorRollback == "rollback"
AfterSuperUserError == "finish"

\* CreateSuperUser: pocketbase admin create run in the service directory
\* (lines 225-230)
ScmSuperUser ==
    /\ scm.kind = "create" /\ scm.pc = "superuser"
    /\ \/ /\ CanFail /\ Fault
          /\ scm' = [scm EXCEPT !.pc = AfterSuperUserError, !.admin = "failed"]
       \/ /\ NoFault
          /\ scm' = [scm EXCEPT !.pc = "finish", !.admin = "ok"]
    /\ UNCHANGED << journal, sysVars, scmFrame, rb, rec >>

\* the closing Clear and return nil of CreateService, UpdateService and
\* DeleteService; onServiceCreate then sets status running
ScmFinish ==
    /\ scm.pc = "finish"
    /\ journal' = Cleared(journal)
    /\ ScmReturn("success")
    /\ rec' = IF scm.kind = "create" THEN [rec EXCEPT !.status = "running"] ELSE rec
    /\ UNCHANGED << sysVars, faults, scmFrame, rb >>

\* scm.rollbackMgr.Rollback() is called
ScmRollback ==
    /\ scm.pc = "rollback"
    /\ RollbackBegin

\* Rollback has returned: the operation returns its error and the hook sets
\* status error
ScmRolledBack ==
    /\ scm.pc = "rollback" /\ rb.pc = "returned"
    /\ rb' = NoRb
    /\ ScmReturn("error")
    /\ rec' = Failed(rec)
    /\ UNCHANGED << journal, sysVars, faults, scmFrame >>

\* where UpdateService goes first, and after the gateway step
\* (lines 247-253, 268, 285, 306-320)
UpdateFirst(service, oldService) ==
    IF service.port # oldService.port THEN "u_unit"
    ELSE IF service.sub # oldService.sub THEN "u_caddy"
    ELSE IF service.status = oldService.status THEN "finish"
    ELSE IF service.status = "running" THEN "u_start"
    ELSE IF service.status = "stopped" THEN "u_stop"
    ELSE "finish"

\* validateBeforeUpdate, the save, then onServiceUpdate and the opening Clear
\* of UpdateService (part_013 lines 241-333)
HookUpdateBegin(name, sub, port, status) ==
    LET new == [name |-> name, sub |-> sub, port |-> port, status |-> status] IN
    /\ scm.pc = "idle" /\ rec # NoSvc /\ scm.n < MaxCalls
    /\ new # rec
    /\ IF port # rec.port
          /\ ~ValidatePortAvailable(port, { rec.port },
                                    held \cup { x.port : x \in running })
       THEN /\ scm' = [IdleScm EXCEPT !.kind = "update", !.svc = new, !.old = rec,
                                      !.res = "rejected", !.n = scm.n + 1]
            /\ UNCHANGED << rec, journal >>
       ELSE /\ scm' = [IdleScm EXCEPT !.kind = "update", !.svc = new, !.old = rec,
                                      !.pc = UpdateFirst(new, rec), !.n = scm.n + 1,
                                      !.pre = [unit |-> units[rec.name],
                                               run |-> { x \in running :
                                                           x.name = rec.name },
                                               file |-> caddyfile]]
            /\ rec' = new
            /\ journal' = Cleared(journal)
    /\ UNCHANGED << sysVars, faults, scmFrame, rb >>

\* the port changed: the unit file is written again (lines 251-263)
ScmUpdateUnit ==
    /\ scm.kind = "update" /\ scm.pc = "u_unit"
    /\ journal' = Registered("systemd", "unit", scm.old)
    /\ \/ /\ CanFail /\ Fault
          /\ ScmFail("failed to update systemd service")
          /\ UNCHANGED units
       \/ /\ NoFault
          /\ units' = [units EXCEPT ![scm.svc.name] = generateServiceContent(scm.svc)]
          /\ ScmGoto("u_caddy")
    /\ UNCHANGED << dirs, bins, enabled, running, caddyfile, scmFrame, rb, rec >>

\* where UpdateService goes on after the gateway step: the restart, if the
\* old value of the record says running (line 285)
AfterCaddyAlways(oldService) == "u_restart"
AfterCaddy(oldService) ==
    IF oldService.status = "running" THEN "u_restart" ELSE "finish"

\* the port or the subdomain changed: AddConfiguration (lines 266-281)
ScmUpdateCaddy ==
    /\ scm.kind = "update" /\ scm.pc = "u_caddy"
    /\ journal' = Registered("caddy", "block", scm.old)
    /\ AddConfiguration(scm.svc, AfterCaddy(scm.old),
                        "failed to update Caddy configuration")
    /\ UNCHANGED << dirs, bins, units, enabled, running, scmFrame, rb, rec >>

\* the service was running: stop, its error dropped, then start
\* (lines 285-304)
ScmUpdateRestart ==
    /\ scm.kind = "update" /\ scm.pc = "u_restart"
    /\ journal' = Registered("service", "start", scm.svc)
    /\ \/ /\ units[scm.svc.name] = NoUnit
          /\ NoFault
          /\ running' = Stopped(running, scm.svc.name)
          /\ ScmFail("failed to restart service")
       \/ /\ units[scm.svc.name] # NoUnit
          /\ CanFail /\ Fault
          /\ running' = Stopped(running, scm.svc.name)
          /\ ScmFail("failed to restart service")
       \/ /\ units[scm.svc.name] # NoUnit
          /\ NoFault
          /\ running' = Started(Stopped(running, scm.svc.name), scm.svc.name,
                                units[scm.svc.name])
          /\ ScmGoto("finish")
    /\ UNCHANGED << dirs, bins, units, enabled, caddyfile, scmFrame, rb, rec >>

\* only the status changed, to running (lines 308-319)
ScmUpdateStart ==
    /\ scm.kind = "update" /\ scm.pc = "u_start"
    /\ journal' = Registered("service", "stop", scm.svc)
    /\ \/ /\ units[scm.svc.name] = NoUnit
          /\ NoFault
          /\ ScmFail("failed to start service")
          /\ UNCHANGED running
       \/ /\ units[scm.svc.name] # NoUnit
          /\ CanFail /\ Fault
          /\ ScmFail("failed to start service")
          /\ UNCHANGED running
       \/ /\ units[scm.svc.name] # NoUnit
          /\ NoFault
          /\ running' = Started(running, scm.svc.name, units[scm.svc.name])
          /\ ScmGoto("finish")
    /\ UNCHANGED << dirs, bins, units, enabled, caddyfile, scmFrame, rb, rec >>

\* only the status changed, to stopped (lines 320-331)
ScmUpdateStop ==
    /\ scm.kind = "update" /\ scm.pc = "u_stop"
    /\ journal' = Registered("service", "start", scm.svc)
    /\ \/ /\ CanFail /\ Fault
          /\ ScmFail("failed to stop service")
          /\ UNCHANGED running
       \/ /\ NoFault
          /\ running' = Stopped(running, scm.svc.name)
          /\ ScmGoto("finish")
    /\ UNCHANGED << dirs, bins, units, enabled, caddyfile, scmFrame, rb, rec >>

\* onServiceDelete runs for the record just deleted; DeleteService starts
\* with Clear (part_013 lines 358-385)
HookDeleteBegin ==
    /\ scm.pc = "idle" /\ rec # NoSvc /\ scm.n < MaxCalls
    /\ scm' = [IdleScm EXCEPT !.kind = "delete", !.pc = "d_unit", !.svc = rec,
                              !.n = scm.n + 1]
    /\ rec' = NoSvc
    /\ journal' = Cleared(journal)
    /\ UNCHANGED << sysVars, faults, scmFrame, rb >>

\* SystemdManagerImpl.RemoveService: stop and disable, their errors dropped,
\* os.Remove with a missing file tolerated, daemon-reload (part_018 lines 350-369)
ScmDeleteUnit ==
    /\ scm.kind = "delete" /\ scm.pc = "d_unit"
    /\ journal' = Registered("systemd", "restore", scm.svc)
    /\ running' = Stopped(running, scm.svc.name)
    /\ enabled' = enabled \ { scm.svc.name }
    /\ \/ /\ CanFail /\ Fault
          /\ ScmFail("failed to remove systemd service")
          /\ UNCHANGED units
       \/ /\ CanFail /\ Fault
          /\ ScmFail("failed to remove systemd service")
          /\ units' = [units EXCEPT ![scm.svc.name] = NoUnit]
       \/ /\ NoFault
          /\ units' = [units EXCEPT ![scm.svc.name] = NoUnit]
          /\ ScmGoto("d_caddy")
    /\ UNCHANGED << dirs, bins, caddyfile, scmFrame, rb, rec >>

\* CaddyManagerImpl.RemoveConfiguration with the name of the service
\* (part_018 lines 372-385); the directory is kept (lines 387-390)
ScmDeleteCaddy ==
    /\ scm.kind = "delete" /\ scm.pc = "d_caddy"
    /\ journal' = Registered("caddy", "block", scm.svc)
    /\ LET content == RemoveConfigurationContent(caddyfile, scm.svc.name) IN
       IF implConfigExists(caddyfile, scm.svc.name)
       THEN \/ /\ CanFail /\ Fault
               /\ ScmFail("failed to remove Caddy configuration")
               /\ UNCHANGED caddyfile
            \/ /\ CanFail /\ Fault
               /\ ScmFail("failed to remove Caddy configuration")
               /\ caddyfile' = content
            \/ /\ ~ValidateConfig(content)
               /\ NoFault
               /\ ScmFail("failed to remove Caddy configuration")
               /\ caddyfile' = content
            \/ /\ ValidateConfig(content)
               /\ NoFault
               /\ ScmGoto("finish")
               /\ caddyfile' = content
       ELSE /\ NoFault
            /\ ScmGoto("finish")
            /\ UNCHANGED caddyfile
    /\ UNCHANGED << dirs, bins, units, enabled, running, scmFrame, rb, rec >>

\* SyncSystemToService: what the files say is written to the record
\* (config_sync_service.go lines 85-127)
HookSync ==
    /\ scm.pc = "idle" /\ rec # NoSvc /\ scm.n < MaxCalls
    /\ \/ /\ CanFail /\ Fault
          /\ scm' = [IdleScm EXCEPT !.kind = "sync", !.svc = rec, !.res = "error",
                                    !.n = scm.n + 1]
          /\ UNCHANGED rec
       \/ /\ NoFault
          /\ rec' = SyncedService(rec)
          /\ scm' = [IdleScm EXCEPT !.kind = "sync", !.svc = rec, !.res = "success",
                                    !.port = rec'.port, !.n = scm.n + 1]
    /\ UNCHANGED << journal, sysVars, scmFrame, rb >>

\* SyncServiceToSystem for the record: the unit file is written, the site
\* block added and caddy reloaded, and a service the supervisor reports
\* active is stopped and started (config_sync_service.go lines 54-82)
HookSyncToSystem ==
    LET content == AddConfigurationContent(caddyfile, rec)
        written == [units EXCEPT ![rec.name] = generateServiceContent(rec)]
        returns(res) == scm' = [IdleScm EXCEPT !.kind = "tosystem", !.svc = rec,
                                               !.res = res, !.n = scm.n + 1]
    IN
    /\ scm.pc = "idle" /\ rec # NoSvc /\ scm.n < MaxCalls
    /\ \/ /\ CanFail /\ Fault
          /\ returns("error")
          /\ UNCHANGED << units, caddyfile, running >>
       \/ /\ CanFail /\ Fault
          /\ returns("error")
          /\ units' = written
          /\ UNCHANGED << caddyfile, running >>
       \/ /\ CanFail /\ Fault
          /\ returns("error")
          /\ units' = written
          /\ caddyfile' = content
          /\ UNCHANGED running
       \/ /\ ~ValidateConfig(content)
          /\ NoFault
          /\ returns("error")
          /\ units' = written
          /\ caddyfile' = content
          /\ UNCHANGED running
       \/ /\ ValidateConfig(content)
          /\ IsRunning(rec.name)
          /\ CanFail /\ Fault
          /\ returns("error")
          /\ units' = written
          /\ caddyfile' = content
          /\ \/ UNCHANGED running
             \/ running' = Stopped(running, rec.name)
       \/ /\ ValidateConfig(content)
          /\ NoFault
          /\ returns("success")
          /\ units' = written
          /\ caddyfile' = content
          /\ running' = IF IsRunning(rec.name)
                         THEN Started(Stopped(running, rec.name), rec.name,
                                      written[rec.name])
                         ELSE running
    /\ UNCHANGED << dirs, bins, enabled, journal, scmFrame, rb, rec >>

ScmNext ==
    \/ \E name \in ScmNames, sub \in ScmNames, port \in ScmPorts :
           HookCreateBegin(name, sub, port)
    \/ ScmMkdir
    \/ ScmDownload
    \/ ScmExtract
    \/ ScmPrepare
    \/ ScmUnit
    \/ ScmEnable
    \/ ScmCaddy
    \/ ScmStart
    \/ ScmSuperUser
    \/ ScmFinish
    \/ ScmRollback
    \/ RollbackStep
    \/ RollbackEnd
    \/ ScmRolledBack
    \/ \E name \in ScmNames, sub \in ScmNames, port \in ScmPorts,
          status \in ScmStatuses : HookUpdateBegin(name, sub, port, status)
    \/ ScmUpdateUnit
    \/ ScmUpdateCaddy
    \/ ScmUpdateRestart
    \/ ScmUpdateStart
    \/ ScmUpdateStop
    \/ HookDeleteBegin
    \/ ScmDeleteUnit
    \/ ScmDeleteCaddy
    \/ HookSync
    \/ HookSyncToSystem

\* every component constructed, some ports taken by other processes
ScmInit ==
    /\ rows = [r \in Reqs |-> NoRow]
    /\ MonIdle
    /\ dirs = {}
    /\ bins = [n \in Names |-> "none"]
    /\ units = [n \in Names |-> NoUnit]
    /\ enabled = {}
    /\ running = {}
    /\ caddyfile = <<>>
    /\ cpc = [r \in Reqs |-> "idle"]
    /\ creq = [r \in Reqs |-> NoReq]
    /\ cnames = [r \in Reqs |-> {}]
    /\ cports = [r \in Reqs |-> {}]
    /\ resp = [r \in Reqs |-> NoResp]
    /\ dpc = [r \in Reqs |-> "idle"]
    /\ op = IdleOp
    /\ opsLeft = 0
    /\ faults = 0
    /\ used = {}
    /\ held \in SUBSET ScmHeld
    /\ assigned = NoPort
    /\ journal = <<>>
    /\ rb = NoRb
    /\ scm = IdleScm
    /\ rec = NoSvc

ScmSpec == ScmInit /\ [][ScmNext]_vars

\* one request, and an operator who may ask a second time
RetryInit ==
    /\ rows = [r \in Reqs |-> NoRow]
    /\ dirs = {}
    /\ bins = [n \in Names |-> "none"]
    /\ units = [n \in Names |-> NoUnit]
    /\ enabled = {}
    /\ running = {}
    /\ caddyfile = <<>>
    /\ cpc = [r \in Reqs |-> "idle"]
    /\ creq = [r \in Reqs |-> NoReq]
    /\ cnames = [r \in Reqs |-> {}]
    /\ cports = [r \in Reqs |-> {}]
    /\ resp = [r \in Reqs |-> NoResp]
    /\ dpc = [r \in Reqs |-> "idle"]
    /\ op = IdleOp
    /\ opsLeft = MaxRetries
    /\ faults = 0
    /\ HookIdle

RetrySpec == RetryInit /\ [][NextOf(LiveReqs)]_vars

\* ------------------------------------- GetServiceStatus and the health check

\* service.Manager.GetServiceStatus: systemctl is-active exits 0 for an
\* active unit only; any error of the command is reported as inactive with
\* the error text, and the call itself returns no error (part_019 lines 423-442)
ManagerGetServiceStatus(serviceName, failed) ==
    IF failed \/ ~IsRunning(serviceName)
    THEN [err |-> FALSE, IsRunning |-> FALSE, SystemdStatus |-> "inactive",
          ErrorMessage |-> TRUE]
    ELSE [err |-> FALSE, IsRunning |-> TRUE, SystemdStatus |-> "active",
          ErrorMessage |-> FALSE]

\* Orchestrator.GetServiceStatus: the row is looked up, and a failed lookup is
\* returned as an error (pkg/orchestrator.go lines 345-352)
GetServiceStatus(id, failed) ==
    IF rows[id] = NoRow
    THEN [err |-> TRUE, IsRunning |-> FALSE, SystemdStatus |-> "",
          ErrorMessage |-> FALSE]
    ELSE ManagerGetServiceStatus(rows[id].name, failed)

\* handleServiceStatus: GET /services/{id}/status (main.go lines 387-397)
StatusRequest(id) ==
    /\ \/ /\ CanFail /\ Fault
          /\ rows[id] # NoRow
          /\ hs' = [called |-> TRUE, id |-> id] @@ GetServiceStatus(id, TRUE)
       \/ /\ NoFault
          /\ hs' = [called |-> TRUE, id |-> id] @@ GetServiceStatus(id, FALSE)
    /\ UNCHANGED << rows, sysVars, createVars, dpc, opVars, mon, down >>
    /\ UNCHANGED << portVars, rollbackVars, scmVars, gw >>

\* OnServe: the goroutine with the 5 minute ticker is started
\* (main.go lines 231-243)
MonitorStart ==
    /\ mon.pc = "off"
    /\ mon' = [mon EXCEPT !.pc = "waiting"]
    /\ UNCHANGED << rows, sysVars, createVars, dpc, opVars, faults, down, hs >>
    /\ UNCHANGED << portVars, rollbackVars, scmVars, gw >>

\* the ticker fires, the only case of the select: performHealthCheck lists
\* the services, and returns when that fails (main.go lines 237-240, 501-510)
Tick ==
    /\ mon.pc = "waiting" /\ mon.sweeps < MaxSweeps
    /\ \/ /\ CanFail /\ Fault
          /\ mon' = [mon EXCEPT !.sweeps = mon.sweeps + 1]
       \/ /\ NoFault
          /\ mon' = [mon EXCEPT !.pc = "sweep",
                                !.todo = { [id |-> r, name |-> rows[r].name,
                                            status |-> rows[r].status] : r \in Present }]
    /\ UNCHANGED << rows, sysVars, createVars, dpc, opVars, down, hs >>
    /\ UNCHANGED << portVars, rollbackVars, scmVars, gw >>

\* what the check of a service does to the rows and to the deployments: the
\* status is compared and a change is logged, nothing else (lines 512-524)
Swept(rs, check) == rs
AfterCheckRetry(d, check) ==
    IF check.stored = "error" /\ d[check.id] = "failed"
    THEN [d EXCEPT ![check.id] = "deploy"] ELSE d
AfterCheck(d, check) == d

\* one turn of the loop over the list, the services taken in the order of
\* the list (lines 512-524)
CheckOne ==
    /\ mon.pc = "sweep" /\ mon.todo # {}
    /\ LET svc == CHOOSE x \in mon.todo : \A y \in mon.todo : x.id <= y.id
           checked(status) == [id |-> svc.id, stored |-> svc.status,
                               err |-> status.err, IsRunning |-> status.IsRunning]
           done(status) ==
               /\ mon' = [mon EXCEPT !.todo = mon.todo \ { svc },
                                     !.last = checked(status)]
               /\ rows' = Swept(rows, checked(status))
               /\ dpc' = AfterCheck(dpc, checked(status))
       IN \/ /\ CanFail /\ Fault
             /\ rows[svc.id] # NoRow
             /\ done(GetServiceStatus(svc.id, TRUE))
          \/ /\ NoFault
             /\ done(GetServiceStatus(svc.id, FALSE))
    /\ UNCHANGED << sysVars, createVars, opVars, down, hs >>
    /\ UNCHANGED << portVars, rollbackVars, scmVars, gw >>

\* the list is through: performHealthCheck returns and the goroutine waits
\* for the next tick (lines 526-527)
SweepEnd ==
    /\ mon.pc = "sweep" /\ mon.todo = {}
    /\ mon' = [mon EXCEPT !.pc = "waiting", !.sweeps = mon.sweeps + 1,
                          !.last = NoCheck]
    /\ UNCHANGED << rows, sysVars, createVars, dpc, opVars, faults, down, hs >>
    /\ UNCHANGED << portVars, rollbackVars, scmVars, gw >>

\* the process is told to terminate: its shutdown begins; the goroutine has
\* no case for it in its select (lines 236-241)
Terminate ==
    /\ ~down
    /\ down' = TRUE
    /\ UNCHANGED << rows, sysVars, createVars, dpc, opVars, faults, mon, hs >>
    /\ UNCHANGED << portVars, rollbackVars, scmVars, gw >>

StatusNext ==
    \/ NextOf(LiveReqs)
    \/ \E id \in LiveReqs : StatusRequest(id)

StatusSpec == RetryInit /\ [][StatusNext]_vars

HealthNext ==
    \/ NextOf(LiveReqs)
    \/ MonitorStart
    \/ Tick
    \/ CheckOne
    \/ SweepEnd
    \/ Terminate

HealthSpec == RetryInit /\ [][HealthNext]_vars

\* ------------------------------------------------ adding a site block

\* the headers of the site blocks of subdomain sub in content
HeadersOf(content, sub) ==
    { i \in DOMAIN content : content[i].k = "hdr" /\ content[i].s = sub }

\* the record of a call for sub and port that left the file as content
Added(sub, port, err) ==
    [gw EXCEPT !.act = "add", !.sub = sub, !.port = port, !.err = err,
               !.had = HeadersOf(caddyfile, sub) # {},
               !.added = IF err THEN gw.added ELSE gw.added \cup { sub },
               !.n = gw.n + 1]

\* caddy.Manager.AddService: an error when the file already names the
\* subdomain, otherwise the block is appended (internal/caddy/manager.go
\* lines 50-89)
CallAddService(sub, port) ==
    /\ gw.by = "pkg" /\ gw.n < MaxAdds
    /\ \/ /\ CanFail /\ Fault
          /\ gw' = Added(sub, port, TRUE)
          /\ UNCHANGED caddyfile
       \/ /\ NoFault
          /\ configExists(caddyfile, sub)
          /\ gw' = Added(sub, port, TRUE)
          /\ UNCHANGED caddyfile
       \/ /\ NoFault
          /\ ~configExists(caddyfile, sub)
          /\ caddyfile' = caddyfile \o ConfigTemplate(sub, port)
          /\ gw' = Added(sub, port, FALSE)
    /\ UNCHANGED << dirs, bins, units, enabled, running >>
    /\ UNCHANGED << rows, createVars, dpc, opVars, mon, down, hs >>
    /\ UNCHANGED << portVars, rollbackVars, scmVars >>

\* CaddyManagerImpl.AddConfiguration: a block of the subdomain is removed,
\* the new block appended, the file written and caddy reloaded (part_016
\* lines 37-67)
CallAddConfiguration(sub, port) ==
    LET service == [name |-> sub, sub |-> sub, port |-> port, status |-> "running"]
        content == AddConfigurationContent(caddyfile, service)
    IN
    /\ gw.by = "hooks" /\ gw.n < MaxAdds
    /\ \/ /\ CanFail /\ Fault
          /\ gw' = Added(sub, port, TRUE)
          /\ UNCHANGED caddyfile
       \/ /\ CanFail /\ Fault
          /\ gw' = Added(sub, port, TRUE)
          /\ caddyfile' = content
       \/ /\ NoFault
          /\ gw' = Added(sub, port, ~ValidateConfig(content))
          /\ caddyfile' = content
    /\ UNCHANGED << dirs, bins, units, enabled, running >>
    /\ UNCHANGED << rows, createVars, dpc, opVars, mon, down, hs >>
    /\ UNCHANGED << portVars, rollbackVars, scmVars >>

GatewayNext ==
    \/ \E sub \in GwSubs, port \in GwPorts : CallAddService(sub, port)
    \/ \E sub \in GwSubs, port \in GwPorts : CallAddConfiguration(sub, port)

\* an empty Caddyfile and one of the two managers
GatewayInit ==
    /\ rows = [r \in Reqs |-> NoRow]
    /\ dirs = {}
    /\ bins = [n \in Names |-> "none"]
    /\ units = [n \in Names |-> NoUnit]
    /\ enabled = {}
    /\ running = {}
    /\ caddyfile = <<>>
    /\ cpc = [r \in Reqs |-> "idle"]
    /\ creq = [r \in Reqs |-> NoReq]
    /\ cnames = [r \in Reqs |-> {}]
    /\ cports = [r \in Reqs |-> {}]
    /\ resp = [r \in Reqs |-> NoResp]
    /\ dpc = [r \in Reqs |-> "idle"]
    /\ op = IdleOp
    /\ opsLeft = 0
    /\ faults = 0
    /\ used = {}
    /\ held = {}
    /\ assigned = NoPort
    /\ journal = <<>>
    /\ rb = NoRb
    /\ scm = IdleScm
    /\ rec = NoSvc
    /\ mon = IdleMon
    /\ down = FALSE
    /\ hs = NoHealth
    /\ gw \in { [NoGw EXCEPT !.by = by] : by \in { "pkg", "hooks" } }

GatewaySpec == GatewayInit /\ [][GatewayNext]_vars

\* ----------------------------------------------- removing a site block

\* the record of a call that removed the block of sub
Removed(sub, err) ==
    [gw EXCEPT !.act = "remove", !.sub = sub, !.port = 0, !.err = err,
               !.had = HeadersOf(caddyfile, sub) # {},
               !.added = gw.added \ { sub },
               !.n = gw.n + 1]

\* caddy.Manager.RemoveService: the file is read, every match of the pattern
\* cut out and the rest written back, whether or not anything matched
\* (internal/caddy/manager.go lines 92-115)
CallRemoveService(sub) ==
    /\ gw.by = "pkg" /\ gw.n < MaxAdds
    /\ \/ /\ CanFail /\ Fault
          /\ gw' = Removed(sub, TRUE)
          /\ UNCHANGED caddyfile
       \/ /\ NoFault
          /\ caddyfile' = RemoveBlock(caddyfile, sub)
          /\ gw' = Removed(sub, FALSE)
    /\ UNCHANGED << dirs, bins, units, enabled, running >>
    /\ UNCHANGED << rows, createVars, dpc, opVars, mon, down, hs >>
    /\ UNCHANGED << portVars, rollbackVars, scmVars >>

\* CaddyManagerImpl.RemoveConfiguration: nothing is done when no block of the
\* subdomain is found; otherwise the matches are cut out, the file written
\* and caddy reloaded (part_016 lines 70-95)
CallRemoveConfiguration(sub) ==
    LET content == RemoveConfigurationContent(caddyfile, sub) IN
    /\ gw.by = "hooks" /\ gw.n < MaxAdds
    /\ \/ /\ CanFail /\ Fault
          /\ gw' = Removed(sub, TRUE)
          /\ UNCHANGED caddyfile
       \/ /\ CanFail /\ Fault
          /\ implConfigExists(caddyfile, sub)
          /\ gw' = Removed(sub, TRUE)
          /\ caddyfile' = content
       \/ /\ NoFault
          /\ gw' = Removed(sub, /\ implConfigExists(caddyfile, sub)
                                /\ ~ValidateConfig(content))
          /\ caddyfile' = content
    /\ UNCHANGED << dirs, bins, units, enabled, running >>
    /\ UNCHANGED << rows, createVars, dpc, opVars, mon, down, hs >>
    /\ UNCHANGED << portVars, rollbackVars, scmVars >>

RemoveNext ==
    \/ GatewayNext
    \/ \E sub \in GwSubs : CallRemoveService(sub)
    \/ \E sub \in GwSubs : CallRemoveConfiguration(sub)

RemoveSpec == GatewayInit /\ [][RemoveNext]_vars

\* ------------------------------------------------ reloading the gateway

\* the record of a Reload call
Reloaded(signalled, err) ==
    [gw EXCEPT !.act = "reload", !.sub = <<>>, !.port = 0, !.err = err,
               !.had = FALSE, !.signalled = signalled, !.n = gw.n + 1]

\* caddy.Manager.ReloadConfig: caddy validate, an error returned when it
\* fails; then systemctl reload caddy (internal/caddy/manager.go lines 118-141)
CallReloadConfig ==
    /\ gw.by = "pkg" /\ gw.n < MaxAdds
    /\ \/ /\ ~ValidateConfig(caddyfile)
          /\ NoFault
          /\ gw' = Reloaded(FALSE, TRUE)
       \/ /\ CanFail /\ Fault                       \* caddy validate fails to run
          /\ gw' = Reloaded(FALSE, TRUE)
       \/ /\ ValidateConfig(caddyfile)
          /\ CanFail /\ Fault                       \* systemctl reload fails
          /\ gw' = Reloaded(TRUE, TRUE)
       \/ /\ ValidateConfig(caddyfile)
          /\ NoFault
          /\ gw' = Reloaded(TRUE, FALSE)
    /\ UNCHANGED << sysVars, rows, createVars, dpc, opVars, mon, down, hs >>
    /\ UNCHANGED << portVars, rollbackVars, scmVars >>

\* CaddyManagerImpl.ReloadCaddy: systemctl reload caddy and nothing before
\* it; the command fails on a file caddy does not accept (part_016
\* lines 98-105)
CallReloadCaddy ==
    /\ gw.by = "hooks" /\ gw.n < MaxAdds
    /\ \/ /\ CanFail /\ Fault
          /\ gw' = Reloaded(TRUE, TRUE)
       \/ /\ NoFault
          /\ gw' = Reloaded(TRUE, ~ValidateConfig(caddyfile))
    /\ UNCHANGED << sysVars, rows, createVars, dpc, opVars, mon, down, hs >>
    /\ UNCHANGED << portVars, rollbackVars, scmVars >>

ReloadNext ==
    \/ RemoveNext
    \/ CallReloadConfig
    \/ CallReloadCaddy

ReloadSpec == GatewayInit /\ [][ReloadNext]_vars

\* ------------------------------------------------------------- properties

DeployInFlight(r) == dpc[r] \notin { "idle", "done", "failed" }
CreateInFlight(r) == cpc[r] \notin { "idle", "done" }
OpInFlight == op.pc # "idle"
Quiescent ==
    /\ ~OpInFlight
    /\ \A r \in Reqs : ~CreateInFlight(r) /\ ~DeployInFlight(r)

\* the site block written for service n is in the file, header included
SiteBlock(n) ==
    \E i \in DOMAIN caddyfile :
        caddyfile[i].k = "hdr" /\ caddyfile[i].s = n /\ caddyfile[i].o = n
\* request r is the only request, and no Delete or Control, names its service
Alone(r) ==
    /\ \A q \in Reqs \ { r } : creq[q].name # DName(r)
    /\ op.name # DName(r)

\* C1: at every instant the committed rows have pairwise distinct ports and
\* pairwise distinct names, compared case-insensitively, and every stored port
\* lies in [1024, 65535].
C1_RowsUnique ==
    /\ \A r \in Present : rows[r].port >= MinPort /\ rows[r].port <= MaxPort
    /\ \A r, q \in Present :
          r # q => /\ rows[r].port # rows[q].port
                   /\ ~EqualFold(rows[r].name, rows[q].name)

\* C2: the rows of concurrent Create requests that carried no port never
\* hold the same port.
C2_AllocatedPortsDistinct ==
    \A r, q \in Present :
        (r # q /\ creq[r].auto /\ creq[q].auto) => rows[r].port # rows[q].port

\* C3: when the deployment of a Create fails, then as it finishes no service
\* directory, binary, unit file or site block of the service remains, and
\* the row exists with status error.
C3_FailedDeployLeavesNothing ==
    [][\A r \in Reqs :
          (dpc[r] = "fail" /\ dpc'[r] = "failed" /\ Alone(r)) =>
             /\ DName(r) \notin dirs'
             /\ bins'[DName(r)] = "none"
             /\ units'[DName(r)] = NoUnit
             /\ ~ \E i \in DOMAIN caddyfile' : caddyfile'[i].o = DName(r)
             /\ rows'[r].status = "error"]_vars

\* C4: a Create whose port is already held by a row it read is answered
\* status error with DUPLICATE_PORT among the errors; a Create answered with
\* status error carries errors and its step changes no row, no directory,
\* unit file, supervisor state or gateway config and starts no deployment,
\* and it never gets a row or a deployment afterwards.
C4_ValidationFailureHasNoEffect ==
    /\ [][\A r \in Reqs :
            (cpc[r] = "validate" /\ cpc'[r] # "validate") =>
               /\ creq[r].port \in cports[r] =>
                    /\ resp'[r].status = "error"
                    /\ "DUPLICATE_PORT" \in resp'[r].errors
               /\ resp'[r].status = "error" =>
                    /\ resp'[r].errors # {}
                    /\ cpc'[r] = "done"
                    /\ rows' = rows
                    /\ sysVars' = sysVars
                    /\ dpc' = dpc]_vars
    /\ [](\A r \in Reqs :
            resp[r].status = "error" => rows[r] = NoRow /\ dpc[r] = "idle")

C4_Witness ==
    \E r \in Reqs :
        /\ resp[r].status = "error"
        /\ resp[r].errors = { "DUPLICATE_PORT" }
        /\ rows[r] = NoRow
        /\ dpc[r] = "idle"
        /\ \E q \in Present : rows[q].port = creq[r].port

C6_OneOperationPerService ==
    \A r \in Reqs : ~(DeployInFlight(r) /\ OpInFlight /\ op.id = r)

\* the operations that are inside an edit of the gateway config (between its
\* read and its write) or inside a daemon-reload, with the service of each
EditingDeploys ==
    { r \in Reqs : dpc[r] \in { "dreload", "caddyappend" } }
OpEditing == op.pc \in { "dreload", "caddywrite", "rmdir" }

\* C7: while the rows are pairwise distinct in name and port, operations of
\* two different services are never inside a gateway-config edit or a
\* daemon-reload at the same time.
C7_OneSharedEditAtATime ==
    C1_RowsUnique =>
        /\ \A r, q \in EditingDeploys : DName(r) # DName(q) => r = q
        /\ \A r \in EditingDeploys : OpEditing => op.name = DName(r)

\* C8: whenever no operation is in flight, every unit file and every site
\* block belongs to a service that has a row.
C8_NoOrphanArtifacts ==
    Quiescent =>
        \A n \in Names :
            (units[n] # NoUnit \/ SiteBlock(n)) =>
                \E r \in Present : rows[r].name = n

\* C9: whenever no operation is in flight, every row with status active has
\* its unit file, its site block, its binary with the executable bit, and a
\* unit the supervisor reports active.
C9_ActiveHasArtifacts ==
    Quiescent =>
        \A r \in Present :
            rows[r].status = "active" =>
                /\ units[rows[r].name] # NoUnit
                /\ SiteBlock(rows[r].name)
                /\ bins[rows[r].name] = "exec"
                /\ IsRunning(rows[r].name)

\* C10: in the step in which a Delete returns success, the unit file of the
\* service does not exist, no site block of it and no piece of one is in the
\* gateway config, and the repository has no row for it.
C10_DeleteRemovesEverything ==
    [][(op.kind = "delete" /\ op.pc = "dbdelete" /\ op'.res = "success"
        /\ \A q \in Reqs \ { op.id } : creq[q].name # op.name) =>
           /\ units'[op.name] = NoUnit
           /\ ~ \E i \in DOMAIN caddyfile' : caddyfile'[i].o = op.name
           /\ rows'[op.id] = NoRow]_vars

\* C11: a Delete that arrives when the unit file or the site block of the
\* service is already missing, with no deployment in flight and no command
\* failing under it, returns success, and when it returns the row, the unit
\* file, the directory and every piece of the site block are gone.
C11_DeleteToleratesMissing ==
    [][(op.kind = "delete" /\ op.pc # "idle" /\ op'.pc = "idle"
        /\ op.gone # {} /\ ~op.busy /\ faults' = faults) =>
           /\ op'.res = "success"
           /\ rows'[op.id] = NoRow
           /\ units'[op.name] = NoUnit
           /\ op.name \notin dirs'
           /\ ~ \E i \in DOMAIN caddyfile' : caddyfile'[i].o = op.name]_vars

\* C12: Delete removes the service directory only of a service whose row is
\* not active: the step that removes a directory is never taken for a row
\* with status active.
C12_ActiveKeepsDirectory ==
    [][(op.kind = "delete" /\ op.pc = "rmdir" /\ ~op.busy
        /\ rows[op.id].status = "active") => dirs' = dirs]_vars

\* C15: with no other process listening on a port and no row below 8091, a
\* port assigned because the request named none is 8091 when no row holds a
\* port, and otherwise one more than the highest port of the rows.
C15_AssignedIsMaxPlusOne ==
    (assigned.by # "none" /\ ~assigned.err /\ held = {}
     /\ \A p \in used : p >= BasePort) =>
        assigned.port = IF used = {} THEN BasePort ELSE MaxOf(used) + 1

\* C16: the port an allocator returns is at least 8091, is the port of no
\* row, passes the listen probe, and no smaller port has these three
\* properties; against no rows it is 8091.
C16_AssignedIsSmallestFree ==
    (assigned.by # "none" /\ ~assigned.err) =>
        /\ assigned.port >= BasePort
        /\ assigned.port \notin used \cup held
        /\ \A q \in BasePort .. assigned.port - 1 : q \in used \cup held
        /\ used = {} /\ held = {} => assigned.port = BasePort

\* C17: Rollback executes the entries of the journal last registered first:
\* the k-th entry it executes is the k-th from the end.
C17_ReverseOrder ==
    \A k \in DOMAIN rb.ran : rb.ran[k] = rb.n - k + 1

C17_Witness ==
    rb.pc = "returned" /\ rb.n = MaxJournal /\ Len(rb.ran) = MaxJournal

\* C18: when Rollback returns, every entry the journal held has been executed
\* exactly once, whatever the entries executed before it returned.
C18_EachExactlyOnce ==
    rb.pc = "returned" =>
        \A e \in 1 .. rb.n :
            Cardinality({ k \in DOMAIN rb.ran : rb.ran[k] = e }) = 1

C18_Witness ==
    rb.pc = "returned" /\ rb.n = MaxJournal /\ rb.n \in rb.failed
        /\ Len(rb.ran) = MaxJournal

\* C19: the error Rollback returns carries the failure of every entry that
\* failed.
C19_AllFailuresCarried ==
    rb.pc = "returned" => rb.carried = rb.failed

\* the headers of the site blocks of subdomain sub
BlocksOf(sub) ==
    { i \in DOMAIN caddyfile : caddyfile[i].k = "hdr" /\ caddyfile[i].s = sub }

UpdatedPort ==
    /\ scm.kind = "update" /\ scm.pc = "idle" /\ scm.res = "success"
    /\ scm.svc.port # scm.old.port

\* C13: once an Update that changed the port of a service has returned
\* success, the unit file of the service carries the new port, the service
\* has a site block and each of its site blocks proxies to the new port, and
\* SyncSystemToService yields the new port.
C13_UpdatePropagatesPort ==
    UpdatedPort =>
        /\ units[scm.svc.name] = scm.svc.port
        /\ extractPortFromSystemd(scm.svc.name) = [err |-> FALSE, port |-> scm.svc.port]
        /\ BlocksOf(scm.svc.sub) # {}
        /\ \A i \in BlocksOf(scm.svc.sub) : BlockPort(caddyfile, i) = scm.svc.port
        /\ SyncedService(rec).port = scm.svc.port

C13_Witness ==
    UpdatedPort /\ scm.old.status = "running" /\ scm.svc.sub = scm.old.sub
        /\ scm.svc.name = scm.old.name

\* C14: an Update of a running service whose new value has another name
\* than the record is rejected: it is never taken up by UpdateService and
\* never returns success.
C14_RenameRejected ==
    (scm.kind = "update" /\ scm.old.status = "running"
     /\ scm.svc.name # scm.old.name) => scm.res = "rejected"

\* C20: every entry of the journal was registered by the call in progress,
\* and the journal is empty whenever no call is in progress and whenever
\* Rollback has returned.
C20_JournalScoped ==
    /\ \A i \in DOMAIN journal : journal[i].n = scm.n /\ scm.pc # "idle"
    /\ scm.pc = "idle" => journal = <<>>
    /\ rb.pc = "returned" => journal = <<>>

C20_Witness ==
    scm.n = 2 /\ rb.pc = "run" /\ Len(rb.ran) >= 1 /\ Len(journal) >= 2

\* the entries of the journal the Rollback in progress has executed whose
\* closure calls RemoveService for the service of the call in progress
RemoveServiceCalls ==
    { k \in DOMAIN rb.ran :
        /\ journal[rb.ran[k]].act = "rmunit"
        /\ journal[rb.ran[k]].svc.name = scm.svc.name }

UnitWriteFailed ==
    scm.kind = "create" /\ scm.label = "failed to create systemd service"

\* C21: when writing the unit file failed during Create, the Rollback that
\* Create calls has, once its loop is over, called RemoveService for the
\* service exactly once, and Create returns an error.
C21_UnitRemoveOnce ==
    /\ (UnitWriteFailed /\ rb.pc = "run" /\ rb.i = 0) =>
            Cardinality(RemoveServiceCalls) = 1
    /\ (UnitWriteFailed /\ scm.pc = "idle") => scm.res = "error"

\* the artifacts of the service of the call in progress, all in place
AllInPlace(service) ==
    /\ service.name \in dirs
    /\ bins[service.name] = "exec"
    /\ units[service.name] = generateServiceContent(service)
    /\ service.name \in enabled
    /\ IsRunning(service.name)
    /\ BlocksOf(service.sub) # {}
    /\ \A i \in BlocksOf(service.sub) : BlockPort(caddyfile, i) = service.port

\* C22: a Create whose superuser step failed calls no Rollback and returns
\* success: the record ends in status running with its directory, its
\* executable binary, its unit file, enabled and running, and its site block.
C22_SuperUserBestEffort ==
    (scm.kind = "create" /\ scm.admin = "failed") =>
        /\ scm.pc \in { "finish", "idle" }
        /\ rb = NoRb
        /\ scm.label = ""
        /\ AllInPlace(scm.svc)
        /\ scm.pc = "idle" =>
              /\ scm.res = "success"
              /\ rec = [scm.svc EXCEPT !.status = "running"]

C22_Witness ==
    scm.kind = "create" /\ scm.admin = "failed" /\ scm.pc = "idle"

CreateSucceeded ==
    scm.kind = "create" /\ scm.pc = "idle" /\ scm.res = "success"

\* C23: when a Create has just returned success, DetectConflicts finds no
\* conflict for the record (port, subdomain, status) and
\* ValidateServiceConfig lists no issue (unit-file port, gateway subdomain,
\* binary).
C23_CreatedIsSynced ==
    CreateSucceeded =>
        /\ DetectConflicts(rec) = {}
        /\ ValidateServiceConfig(rec) = {}

\* C24: when SyncServiceToSystem has just returned success for the record,
\* what SyncSystemToService yields for the record equals the record in
\* port, subdomain and status.
C24_SyncRoundTrip ==
    (scm.kind = "tosystem" /\ scm.pc = "idle" /\ scm.res = "success") =>
        /\ SyncedService(rec).port = rec.port
        /\ SyncedService(rec).sub = rec.sub
        /\ SyncedService(rec).status = rec.status

\* a Control request returns success with this step
ControlSucceeds ==
    /\ op.kind = "control" /\ op.pc # "idle"
    /\ op'.kind = "control" /\ op'.pc = "idle" /\ op'.res = "success"

\* C25: when a Control request returns success, the row of its service is
\* there and its status is active if the action was start or restart, and
\* inactive if the action was stop.
C25_ControlSetsStatus ==
    [][ControlSucceeds =>
         /\ rows'[op.id] # NoRow
         /\ op.act \in { "start", "restart" } => rows'[op.id].status = "active"
         /\ op.act = "stop" => rows'[op.id].status = "inactive"]_vars

C25_Witness ==
    /\ op.kind = "control" /\ op.pc = "idle" /\ op.res = "success"
    /\ op.act = "stop"
    /\ rows[op.id] # NoRow /\ rows[op.id].status = "inactive"
    /\ ~IsRunning(op.name)

\* C26: GetServiceStatus never returns an error: whenever the lookup or the
\* activity check failed, what it returned is a health status that reports
\* inactive and carries an error message.
C26_StatusNeverErrors ==
    hs.called =>
        /\ ~hs.err
        /\ ~hs.IsRunning => hs.SystemdStatus = "inactive" /\ hs.ErrorMessage

\* the check of a service has just been made, by this step
Checked == mon.pc = "sweep" /\ mon'.pc = "sweep" /\ mon'.todo # mon.todo

\* the status the list had is not what the supervisor reported (the two
\* cases the sweep logs, main.go lines 519-523)
Transition(check) ==
    \/ check.IsRunning /\ check.stored # "active"
    \/ ~check.IsRunning /\ check.stored = "active"

\* C27: when the sweep has checked a service whose status in the list
\* differs from the activity the supervisor reported, no deployment and no
\* request being at work, the status of the row of the service agrees with
\* the supervisor after the check.
C27_SweepUpdatesStatus ==
    [][(Checked /\ ~mon'.last.err /\ Transition(mon'.last)
            /\ rows[mon'.last.id] # NoRow
            /\ ~DeployInFlight(mon'.last.id) /\ ~OpInFlight) =>
          rows'[mon'.last.id].status =
              (IF mon'.last.IsRunning THEN "active" ELSE "inactive")]_vars

\* C28: once the shutdown of the process has begun, the health-check
\* goroutine starts no sweep.
C28_NoSweepAfterShutdown ==
    [][down => ~(mon.pc = "waiting" /\ mon'.pc = "sweep")]_vars

\* C29: the deployment of a row runs at most once: once started it is never
\* at its first step again and once over it stays over, whatever Control
\* requests are served and whatever the health check sweeps.
C29_DeployAtMostOnce ==
    [][\A r \in Reqs :
          dpc[r] # "idle" =>
              /\ dpc'[r] # "idle"
              /\ dpc[r] # "deploy" => dpc'[r] # "deploy"
              /\ dpc[r] \in { "done", "failed" } => dpc'[r] = dpc[r]]_vars

C29_Witness ==
    \E r \in Reqs :
        /\ dpc[r] = "failed" /\ rows[r] # NoRow
        /\ op.kind = "control" /\ op.id = r /\ op.pc = "idle" /\ op.res = "success"
        /\ mon.pc = "sweep" /\ mon.last.id = r /\ mon.last.stored = "error"

\* the ports the reverse_proxy directives written for subdomain sub name
ProxyPortsOf(sub) ==
    { caddyfile[k].p : k \in { i \in DOMAIN caddyfile :
                                 /\ caddyfile[i].k = "dir"
                                 /\ caddyfile[i].s = <<"reverse_proxy">>
                                 /\ caddyfile[i].o = sub } }

\* C30: after any sequence of calls that add a site block, the file holds
\* exactly one block for each subdomain added; and a call for a subdomain
\* that had a block, nothing failing underneath, returns no error and leaves
\* that one block proxying to the new port.
C30_OneBlockPerSubdomain ==
    /\ \A sub \in gw.added : Cardinality(HeadersOf(caddyfile, sub)) = 1
    /\ (gw.had /\ faults = 0) =>
          /\ ~gw.err
          /\ Cardinality(HeadersOf(caddyfile, gw.sub)) = 1
          /\ ProxyPortsOf(gw.sub) = { gw.port }

\* what content holds of the block written for subdomain sub, in order
OwnedBy(content, sub) ==
    LET own(t) == t.o = sub IN SelectSeq(content, own)

\* every block of the file is whole: the braces pair up and no header is cut
Intact(content) ==
    /\ ValidateConfig(content)
    /\ \A i \in DOMAIN content : content[i].k # "txt"

\* C31: a call that removes the block of a subdomain from a file whose blocks
\* are whole, nothing failing underneath, leaves nothing of that block in the
\* file and leaves what the file holds of every other block as it was.
C31_RemoveExactlyThatBlock ==
    [][(gw'.act = "remove" /\ gw'.n # gw.n /\ faults' = faults
            /\ Intact(caddyfile)) =>
          /\ OwnedBy(caddyfile', gw'.sub) = <<>>
          /\ \A s \in GwSubs \ { gw'.sub } :
                OwnedBy(caddyfile', s) = OwnedBy(caddyfile, s)]_vars

\* C32: when a deployment has added the site block of its service and
\* ended with the row active, and a Delete of a service of another name,
\* which the pattern of its removal does not find in the header of that block,
\* has returned success, the file holds the site block the deployment added.
C32_NoLostEdit ==
    \A r \in Reqs :
        (/\ dpc[r] = "done"
         /\ op.kind = "delete" /\ op.pc = "idle" /\ op.res = "success"
         /\ ~EqualFold(op.name, DName(r))
         /\ ~IsSuffix(op.name, DName(r))) => SiteBlock(DName(r))

\* a step of CreateService before any step of it failed
CreateStep == scm.kind = "create" /\ scm.pc \notin { "idle", "rollback" }

\* the steps of CreateService up to the unit file take effect in the order
\* directory, binary, permissions, unit file, enable
UpToEnableInOrder ==
    LET n == scm.svc.name IN
    /\ bins'[n] # bins[n] => n \in dirs
    /\ units'[n] # units[n] => bins[n] = "exec"
    /\ enabled' # enabled => units[n] # NoUnit
    /\ running' # running => n \in enabled

\* C33: within one Create each step takes effect after the steps declared
\* before it: the binary after the directory, the unit file after the
\* executable binary, enabling after the unit file, starting after enabling,
\* the site block after the unit is enabled and started; and the record is
\* set to running only when all of these are in place.
C33_StepsInDeclaredOrder ==
    [][CreateStep =>
          /\ UpToEnableInOrder
          /\ caddyfile' # caddyfile =>
                scm.svc.name \in enabled /\ IsRunning(scm.svc.name)
          /\ (rec'.status = "running" /\ rec.status # "running") =>
                AllInPlace(scm.svc)]_vars

\* the same without the place of the start
OrderButStart ==
    [][CreateStep =>
          /\ UpToEnableInOrder
          /\ caddyfile' # caddyfile => scm.svc.name \in enabled
          /\ (rec'.status = "running" /\ rec.status # "running") =>
                AllInPlace(scm.svc)]_vars

\* the Rollback that a failed UpdateService called has returned and every
\* entry it executed returned nil; the update kept the name of the service,
\* and the unit file agreed with the record when the update was called
UpdateRolledBack ==
    /\ scm.kind = "update" /\ scm.pc = "rollback"
    /\ rb.pc = "returned" /\ rb.failed = {}
    /\ scm.svc.name = scm.old.name
    /\ scm.pre.unit = generateServiceContent(scm.old)

\* C34: when a step of an Update failed and the Rollback it called has
\* executed every entry without error, the unit file of the service and
\* what the gateway config holds of the block of its old subdomain are what
\* they were when the update was called, and the unit is running exactly if
\* it was running then.
C34_UpdateRollbackRestores ==
    UpdateRolledBack =>
        /\ units[scm.old.name] = scm.pre.unit
        /\ OwnedBy(caddyfile, scm.old.sub) = OwnedBy(scm.pre.file, scm.old.sub)
        /\ IsRunning(scm.old.name) <=> scm.pre.run # {}

\* an UpdateService in progress whose new value changes port or subdomain
ConfigChanged ==
    /\ scm.kind = "update"
    /\ scm.svc.port # scm.old.port \/ scm.svc.sub # scm.old.sub

\* C35: in an Update that changes port or subdomain, nothing is stopped or
\* started while the unit file and the gateway block are written; once the
\* gateway block is written the restart follows exactly if the old value of
\* the record says running; the restart finds the unit file of a changed
\* port and the site block of the new value written, and when it succeeds
\* the unit is running as its unit file says.
C35_RestartIffWasRunning ==
    [][ConfigChanged =>
          /\ scm.pc \in { "u_unit", "u_caddy" } => running' = running
          /\ (scm.pc = "u_caddy" /\ scm'.pc # "rollback") =>
                (scm'.pc = "u_restart" <=> scm.old.status = "running")
          /\ scm.pc = "u_restart" =>
                /\ scm.svc.port # scm.old.port =>
                      units[scm.svc.name] = generateServiceContent(scm.svc)
                /\ BlocksOf(scm.svc.sub) # {}
                /\ \A i \in BlocksOf(scm.svc.sub) :
                      BlockPort(caddyfile, i) = scm.svc.port
          /\ (scm.pc = "u_restart" /\ scm'.pc = "finish") =>
                [name |-> scm.svc.name, port |-> units[scm.svc.name]] \in running'
          /\ (scm.pc = "finish" /\ scm.old.status # "running") =>
                running = scm.pre.run \cup Stopped(running, scm.old.name)]_vars

C35_Witness ==
    /\ scm.kind = "update" /\ scm.pc = "idle" /\ scm.res = "success"
    /\ scm.svc.sub # scm.old.sub /\ scm.svc.port # scm.old.port
    /\ scm.old.status = "running"
    /\ [name |-> scm.svc.name, port |-> scm.svc.port] \in running

\* C36: once an Update that changed the subdomain of a service and kept its
\* name has returned success, the gateway config holds exactly one site
\* block for the new subdomain and nothing of the block of the old one.
C36_SubdomainChangeMovesBlock ==
    (/\ scm.kind = "update" /\ scm.pc = "idle" /\ scm.res = "success"
     /\ scm.svc.sub # scm.old.sub /\ scm.svc.name = scm.old.name) =>
        /\ Cardinality(BlocksOf(scm.svc.sub)) = 1
        /\ OwnedBy(caddyfile, scm.old.sub) = <<>>

\* the journal holds an entry of type service whose closure does act
Compensated(act) ==
    \E i \in DOMAIN journal : journal[i].type = "service" /\ journal[i].act = act

\* the steps of an UpdateService that kept the name of the service have all
\* succeeded
UpdateDone ==
    scm.kind = "update" /\ scm.pc = "finish" /\ scm.svc.name = scm.old.name

\* C37: when every step of an Update has succeeded, an update from status
\* running to stopped has stopped the unit and journaled a start, and an
\* update from stopped to running has started the unit and journaled a stop.
C37_StatusChangeActs ==
    UpdateDone =>
        /\ (scm.old.status = "running" /\ scm.svc.status = "stopped") =>
              ~IsRunning(scm.svc.name) /\ Compensated("start")
        /\ (scm.old.status = "stopped" /\ scm.svc.status = "running") =>
              IsRunning(scm.svc.name) /\ Compensated("stop")

\* the same for the updates that change the status and nothing else
StatusOnlyActs ==
    (UpdateDone /\ ~ConfigChanged) =>
        /\ (scm.old.status = "running" /\ scm.svc.status = "stopped") =>
              ~IsRunning(scm.svc.name) /\ Compensated("start")
        /\ (scm.old.status = "stopped" /\ scm.svc.status = "running") =>
              IsRunning(scm.svc.name) /\ Compensated("stop")

\* C38: a Reload call runs systemctl reload caddy only on a file that passes
\* caddy validate; on a file that does not, it does not run it and returns
\* an error.
C38_ReloadAfterValidation ==
    gw.act = "reload" =>
        /\ gw.signalled => ValidateConfig(caddyfile)
        /\ ~ValidateConfig(caddyfile) => ~gw.signalled /\ gw.err

\* the same of caddy.Manager alone
ReloadConfigAfterValidation ==
    (gw.act = "reload" /\ gw.by = "pkg") =>
        /\ gw.signalled => ValidateConfig(caddyfile)
        /\ ~ValidateConfig(caddyfile) => ~gw.signalled /\ gw.err

\* C39: for the record of a service at rest, DetectConflicts lists the port
\* when the service has no unit file, and the subdomain when the gateway
\* config holds no site block of the subdomain of the record: a missing file
\* or block is never passed over as if the field agreed.
C39_MissingIsReported ==
    (scm.pc = "idle" /\ rec # NoSvc) =>
        /\ units[rec.name] = NoUnit => "port" \in DetectConflicts(rec)
        /\ BlocksOf(rec.sub) = {} => "subdomain" \in DetectConflicts(rec)

\* C40: when EnableService returns success to CreateService, the unit of
\* the service is enabled and has been started.
C40_EnableStarts ==
    [][(scm.kind = "create" /\ scm.pc = "enable" /\ scm'.pc = "caddy") =>
          /\ scm.svc.name \in enabled'
          /\ \E x \in running' : x.name = scm.svc.name]_vars

\* the same of systemd.Manager.EnableService in a deployment: it is past
\* daemon-reload when it enables, and when it returns success the unit is
\* enabled and started
ManagerEnableStarts ==
    [][\A r \in Reqs :
          /\ (dpc[r] = "unit" /\ dpc'[r] \notin { "unit", "fail" }) =>
                dpc'[r] = "dreload"
          /\ (dpc[r] = "dreload" /\ dpc'[r] \notin { "dreload", "fail" }) =>
                dpc'[r] = "enable"
          /\ (dpc[r] = "enable" /\ dpc'[r] = "caddycheck") =>
                /\ DName(r) \in enabled'
                /\ \E x \in running' : x.name = DName(r)]_vars
====
